---------------------------- MODULE Spec2Model ----------------------------
(***************************************************************************)
(* A model of the sockethub wire protocol: the SocketHeader codec          *)
(* (protocol/header.go, protocol/header_encoder.go), the CRC32 checksum    *)
(* (protocol/checksum.go) and the framed stream and datagram transports    *)
(* (connection/connection.go).                                             *)
(*                                                                         *)
(* Bytes are integers 0..255 and a Go []byte is a sequence of them.        *)
(* TLC's integers are 32 bits wide, so a uint64 is kept as four 16-bit     *)
(* limbs and a uint32 as two, most significant first; the big-endian       *)
(* encoders split every limb into its two bytes.                           *)
(***************************************************************************)
EXTENDS Integers, Sequences, FiniteSets, TLC

\* ------------------------------------------------------------------ words

\* 2^16: a uint64 is four limbs, a uint32 two.
Limb == 256 * 256

U64Zero == <<0, 0, 0, 0>>

U32Zero == <<0, 0>>

\* uint64(n) for a small non-negative int n (a length).
U64FromInt(n) == <<0, 0, n \div Limb, n % Limb>>

\* a + b modulo 2^64 (Go's unsigned addition wraps).
U64Add(a, b) ==
    LET s4 == a[4] + b[4]
        s3 == a[3] + b[3] + (s4 \div Limb)
        s2 == a[2] + b[2] + (s3 \div Limb)
        s1 == a[1] + b[1] + (s2 \div Limb)
    IN  <<s1 % Limb, s2 % Limb, s3 % Limb, s4 % Limb>>

\* a < b on uint64.
U64Less(a, b) ==
    \E i \in 1..4 : a[i] < b[i] /\ \A j \in 1..(i - 1) : a[j] = b[j]

\* The value fits an int that the model can compute with (below 2^16).
U64Small(a) == a[1] = 0 /\ a[2] = 0 /\ a[3] = 0

U64ToInt(a) == a[4]

\* The counter left as it is.
U32Stay(a) == a

\* A counter that stops at 2^32-1 instead of wrapping.
U32IncSaturating(a) ==
    IF a = <<Limb - 1, Limb - 1>> THEN a
    ELSE LET lo == a[2] + 1
         IN  <<(a[1] + (lo \div Limb)) % Limb, lo % Limb>>

\* u.sequence++ on a uint32: wraps modulo 2^32.
U32Inc(a) ==
    LET lo == a[2] + 1
    IN  <<(a[1] + (lo \div Limb)) % Limb, lo % Limb>>

\* binary.BigEndian.PutUint64 / Uint64.
PutUint64(x) ==
    [i \in 1..8 |-> IF i % 2 = 1 THEN x[(i + 1) \div 2] \div 256
                                 ELSE x[i \div 2] % 256]

Uint64(b) == [i \in 1..4 |-> b[2 * i - 1] * 256 + b[2 * i]]

\* binary.BigEndian.PutUint32 / Uint32.
PutUint32(x) ==
    [i \in 1..4 |-> IF i % 2 = 1 THEN x[(i + 1) \div 2] \div 256
                                 ELSE x[i \div 2] % 256]

Uint32(b) == [i \in 1..2 |-> b[2 * i - 1] * 256 + b[2 * i]]

\* s[lo:hi] of Go, on 0-based offsets: the elements lo+1..hi of the sequence.
Slice(s, lo, hi) == [i \in 1..(hi - lo) |-> s[lo + i]]

\* ------------------------------------------------------------------ checksum

RECURSIVE XorBits(_, _, _)
\* a XOR b on n-bit values.
XorBits(a, b, n) ==
    IF n = 0 THEN 0
    ELSE ((a + b) % 2) + 2 * XorBits(a \div 2, b \div 2, n - 1)

Xor32(a, b) == <<XorBits(a[1], b[1], 16), XorBits(a[2], b[2], 16)>>

\* crc32.IEEE, the reversed polynomial 0xEDB88320.
IEEE == <<60856, 33568>>

Shr1(x) == <<x[1] \div 2, (x[2] \div 2) + (x[1] % 2) * 32768>>

Shr8(x) == <<x[1] \div 256, (x[2] \div 256) + (x[1] % 256) * 256>>

RECURSIVE TableEntry(_, _)
TableEntry(crc, k) ==
    IF k = 0 THEN crc
    ELSE TableEntry(IF crc[2] % 2 = 1 THEN Xor32(Shr1(crc), IEEE) ELSE Shr1(crc),
                    k - 1)

\* crc32.MakeTable(crc32.IEEE): the 256 entries, computed once (the
\* concatenation makes the function a tuple, which TLC keeps).
CRC32Entries == [i \in 1..256 |-> TableEntry(<<0, i - 1>>, 8)] \o <<>>

CRC32Table == [i \in 0..255 |-> CRC32Entries[i + 1]]

RECURSIVE CrcUpdate(_, _, _)
\* The table-driven update over the bytes p[i..]; the running value is bound
\* once per byte.
CrcUpdate(crc, p, i) ==
    IF i > Len(p) THEN crc
    ELSE CHOOSE r \in
           { CrcUpdate(Xor32(CRC32Table[XorBits(c[2] % 256, p[i], 8)], Shr8(c)),
                       p, i + 1) : c \in {crc} } : TRUE

\* Checksum: the CRC32 (IEEE) of the payload bytes.
Checksum(payload) ==
    Xor32(CrcUpdate(<<65535, 65535>>, payload, 1), <<65535, 65535>>)

\* ------------------------------------------------------------------ header

ProtocolTCP == 0

ProtocolUDP == 1

MessageTypeUnknown == 0

MessageTypeData == 1

MessageTypeBroadcast == 2

MessageTypeHeartbeat == 3

FlagNone == 0

FlagEncrypted == 4

UuidNil == [i \in 1..16 |-> 0]

\* A non-zero identifier; its 16 bytes differ from one another.
Uuid(k) == [i \in 1..16 |-> (16 * k + i) % 256]

\* The nil *SocketHeader.
NilHeader == [nil |-> TRUE]

\* SocketHeader.IsBroadcast
IsBroadcast(h) == h.MessageType = MessageTypeBroadcast /\ h.Receiver # UuidNil

\* A stamping that overwrites the timestamp on every encode.
SetTimestampAlways(h, now) == [h EXCEPT !.Timestamp = now]

\* SocketHeader.SetTimestampIfZero, with now the clock's reading.
SetTimestampIfZero(h, now) ==
    IF h.Timestamp = U64Zero THEN [h EXCEPT !.Timestamp = now] ELSE h

\* ID, Sender, Timestamp, Length and the four control bytes.
BaseSize == 16 + 16 + 8 + 8 + 1 + 1 + 1 + 1

\* SocketHeader.HeaderSize
HeaderSize(h) ==
    BaseSize + (IF IsBroadcast(h) THEN 16 ELSE 0)
             + (IF h.Protocol = ProtocolUDP THEN 4 ELSE 0)

\* The control bytes with Router and MessageType in each other's place.
ControlBytesSwapped(h) == <<h.Flags, h.Router, h.MessageType, h.Protocol>>

ControlBytes(h) == <<h.Flags, h.MessageType, h.Router, h.Protocol>>

\* An encoder that writes the Receiver block for every broadcast header,
\* a nil Receiver included.
HeaderBytesAlwaysReceiver(h) ==
    h.ID \o h.Sender \o PutUint64(h.Timestamp) \o PutUint64(h.Length)
         \o ControlBytes(h)
         \o (IF h.MessageType = MessageTypeBroadcast THEN h.Receiver ELSE <<>>)
         \o (IF h.Protocol = ProtocolUDP THEN PutUint32(h.Sequence) ELSE <<>>)

\* The bytes HeaderEncode writes for a header whose timestamp is set.
HeaderBytes(h) ==
    h.ID \o h.Sender \o PutUint64(h.Timestamp) \o PutUint64(h.Length)
         \o ControlBytes(h)
         \o (IF IsBroadcast(h) THEN h.Receiver ELSE <<>>)
         \o (IF h.Protocol = ProtocolUDP THEN PutUint32(h.Sequence) ELSE <<>>)

\* HeaderEncode: the header as it leaves the call (the caller's object is
\* mutated) and the bytes, or an error for the nil header.
HeaderEncode(h, now) ==
    IF h = NilHeader
    THEN [err |-> TRUE, h |-> NilHeader, bytes |-> <<>>]
    ELSE LET h2 == SetTimestampIfZero(h, now)
         IN  [err |-> FALSE, h |-> h2, bytes |-> HeaderBytes(h2)]

\* A lower bound that lets inputs of 48 to 51 bytes through.
MinSizeShort == 16 + 16 + 8 + 8

MinSize == 16 + 16 + 8 + 8 + 4

MaxSize == MinSize + 16 + 4

DecodeErr == [kind |-> "err", h |-> NilHeader]

DecodePanic == [kind |-> "panic", h |-> NilHeader]

\* HeaderDecode(data), where data is the first n bytes of arr and arr runs to
\* data's capacity: a slice expression data[lo:hi] is legal up to cap(data)
\* and panics beyond it.  The fields are read before the size consumed is
\* compared with len(data).
HeaderDecode(arr, n) ==
    IF n < MinSize \/ n > MaxSize THEN DecodeErr
    ELSE
      LET mt     == arr[50]
          proto  == arr[52]
          off1   == BaseSize
          bcast  == mt = MessageTypeBroadcast
          off2   == IF bcast THEN off1 + 16 ELSE off1
          udp    == proto = ProtocolUDP
          off3   == IF udp THEN off2 + 4 ELSE off2
          h == [ID          |-> Slice(arr, 0, 16),
                Sender      |-> Slice(arr, 16, 32),
                Timestamp   |-> Uint64(Slice(arr, 32, 40)),
                Length      |-> Uint64(Slice(arr, 40, 48)),
                Flags       |-> arr[49],
                MessageType |-> mt,
                Router      |-> arr[51],
                Protocol    |-> proto,
                Receiver    |-> IF bcast THEN Slice(arr, off1, off2) ELSE UuidNil,
                Sequence    |-> IF udp THEN Uint32(Slice(arr, off2, off3))
                                       ELSE U32Zero]
      IN  IF off1 > Len(arr) THEN DecodePanic
          ELSE IF bcast /\ off2 > Len(arr) THEN DecodePanic
          ELSE IF udp /\ off3 > Len(arr) THEN DecodePanic
          ELSE IF off3 # n THEN DecodeErr
          ELSE [kind |-> "ok", h |-> h]


\* ------------------------------------------------------------------ frames

\* The caller's Length left as it is.
SetLengthKeep(h, payload) == h

\* header.Length = uint64(len(payload))
SetLength(h, payload) == [h EXCEPT !.Length = U64FromInt(Len(payload))]

\* A message whose checksum covers the header as well.
FrameCoveringHeader(headerBytes, payload) ==
    <<Len(headerBytes) % 256>> \o headerBytes \o payload
        \o PutUint32(Checksum(headerBytes \o payload))

\* The message WriteFrame assembles: the header-length prefix, the encoded
\* header, the payload and the big-endian checksum of the payload.
Frame(headerBytes, payload) ==
    <<Len(headerBytes) % 256>> \o headerBytes \o payload
        \o PutUint32(Checksum(payload))

NoWrite ==
    [called |-> FALSE, err |-> "", hin |-> NilHeader, h |-> NilHeader,
     payload |-> <<>>, msg |-> <<>>, sender |-> UuidNil, seq |-> U32Zero]

\* A stream WriteFrame that writes the transport's sender into the header,
\* as the datagram one does.
TcpBuildStampingSender(header, payload, now, snd) ==
    IF header = NilHeader
    THEN [err |-> "nil", h |-> NilHeader, msg |-> <<>>]
    ELSE LET h1  == [SetLength(header, payload) EXCEPT !.Sender = snd]
             enc == HeaderEncode(h1, now)
         IN  [err |-> "", h |-> enc.h, msg |-> Frame(enc.bytes, payload)]

\* tcpConnWrapper.WriteFrame up to conn.Write: the caller's header as the call
\* leaves it and the message handed to the connection.
TcpBuild(header, payload, now, snd) ==
    IF header = NilHeader
    THEN [err |-> "nil", h |-> NilHeader, msg |-> <<>>]
    ELSE LET h1  == SetLength(header, payload)
             enc == HeaderEncode(h1, now)
         IN  [err |-> "", h |-> enc.h, msg |-> Frame(enc.bytes, payload)]

\* The caller's Sender left as it is.
UdpStampKeepSender(h, snd, seq) ==
    [h EXCEPT !.Protocol = ProtocolUDP, !.Sequence = seq]

\* The caller's Sequence left as it is.
UdpStampKeepSequence(h, snd, seq) ==
    [h EXCEPT !.Sender = snd, !.Protocol = ProtocolUDP]

\* header.Sender = u.sender; header.Protocol = ProtocolUDP;
\* header.Sequence = u.sequence
UdpStamp(h, snd, seq) ==
    [h EXCEPT !.Sender = snd, !.Protocol = ProtocolUDP, !.Sequence = seq]

\* A datagram WriteFrame that counts the call before it looks at the header.
UdpBuildCountingNil(header, payload, now, snd, seq, max) ==
    IF header = NilHeader
    THEN [err |-> "nil", h |-> NilHeader, msg |-> <<>>, seq |-> U32Inc(seq)]
    ELSE LET h1  == SetLength(UdpStamp(header, snd, seq), payload)
             enc == HeaderEncode(h1, now)
             msg == Frame(enc.bytes, payload)
         IN  IF Len(msg) > max
             THEN [err |-> "toolarge", h |-> enc.h, msg |-> <<>>,
                   seq |-> U32Inc(seq)]
             ELSE [err |-> "", h |-> enc.h, msg |-> msg, seq |-> U32Inc(seq)]

\* A datagram WriteFrame that sends whatever it assembled.
UdpBuildUnchecked(header, payload, now, snd, seq, max) ==
    IF header = NilHeader
    THEN [err |-> "nil", h |-> NilHeader, msg |-> <<>>, seq |-> seq]
    ELSE LET h1  == SetLength(UdpStamp(header, snd, seq), payload)
             enc == HeaderEncode(h1, now)
         IN  [err |-> "", h |-> enc.h, msg |-> Frame(enc.bytes, payload),
              seq |-> U32Inc(seq)]

\* udpConnWrapper.WriteFrame up to pc.WriteTo: the header as the call leaves
\* it, the counter after u.sequence++, and the message or the size error.
UdpBuild(header, payload, now, snd, seq, max) ==
    IF header = NilHeader
    THEN [err |-> "nil", h |-> NilHeader, msg |-> <<>>, seq |-> seq]
    ELSE LET h1  == SetLength(UdpStamp(header, snd, seq), payload)
             enc == HeaderEncode(h1, now)
             msg == Frame(enc.bytes, payload)
         IN  IF Len(msg) > max
             THEN [err |-> "toolarge", h |-> enc.h, msg |-> <<>>,
                   seq |-> U32Inc(seq)]
             ELSE [err |-> "", h |-> enc.h, msg |-> msg, seq |-> U32Inc(seq)]

\* ------------------------------------------------------------------ reading

NoRead == [kind |-> "none", err |-> "", h |-> NilHeader, payload |-> <<>>]

ReadErr(e) == [kind |-> "err", err |-> e, h |-> NilHeader, payload |-> <<>>]

ReadPanic == [kind |-> "panic", err |-> "", h |-> NilHeader, payload |-> <<>>]

ReadOk(h, p) == [kind |-> "ok", err |-> "", h |-> h, payload |-> p]

\* The tail of ReadFrame on both transports: block holds the payload and the
\* 4 checksum bytes.
VerifyChecksum(h, block) ==
    IF Len(block) < 4 THEN ReadPanic
    ELSE LET payloadData == Slice(block, 0, Len(block) - 4)
             checksum    == Uint32(Slice(block, Len(block) - 4, Len(block)))
         IN  IF checksum # Checksum(payloadData) THEN ReadErr("checksum")
             ELSE ReadOk(h, payloadData)

\* udpConnWrapper.ReadFrame after pc.ReadFrom: pkt is the datagram, of which
\* the first max bytes land in a zeroed buffer of max bytes.  headerSize is a
\* byte, so the bound 1+headerSize of buf[1:1+headerSize] wraps at 256.
UdpParse(pkt, max) ==
    LET n   == IF Len(pkt) < max THEN Len(pkt) ELSE max
        buf == [i \in 1..max |-> IF i <= n THEN pkt[i] ELSE 0]
    IN  IF n < 1 THEN ReadErr("truncated")
        ELSE
          LET headerSize == buf[1]
          IN  IF n < 1 + headerSize THEN ReadErr("truncated")
              ELSE IF (1 + headerSize) % 256 < 1 THEN ReadPanic
              ELSE
                LET d == HeaderDecode(Slice(buf, 1, max), headerSize)
                    payloadStart == 1 + headerSize
                IN  IF d.kind = "panic" THEN ReadPanic
                    ELSE IF d.kind = "err" THEN ReadErr("decode")
                    ELSE
                      LET l4 == U64Add(d.h.Length, U64FromInt(4))
                      IN  IF U64Less(U64FromInt(n),
                                     U64Add(U64FromInt(payloadStart), l4))
                          THEN ReadErr("truncated")
                          ELSE IF ~U64Small(l4) THEN ReadPanic
                          ELSE IF payloadStart + U64ToInt(l4) > max THEN ReadPanic
                          ELSE VerifyChecksum(d.h,
                                 Slice(buf, payloadStart,
                                       payloadStart + U64ToInt(l4)))


\* The reader of the stream transport between two partial reads.
IdleReader == [pc |-> "idle", buf |-> <<>>, need |-> 0, h |-> NilHeader]

CrashedReader == [pc |-> "crashed", buf |-> <<>>, need |-> 0, h |-> NilHeader]

\* A reader that a failed ReadFrame leaves unusable, as on a stream.
ReturnedUnusable(res) ==
    [rd |-> IF res.kind = "ok" THEN IdleReader ELSE CrashedReader, res |-> res]

Returned(res) ==
    [rd |-> IF res.kind = "panic" THEN CrashedReader ELSE IdleReader, res |-> res]

Blocked(pc, need, h) ==
    [rd |-> [pc |-> pc, buf |-> <<>>, need |-> need, h |-> h], res |-> NoRead]

\* io.ReadFull returns once the buffer is full, not before.
ReadFullDone(buf, need) == Len(buf) = need

\* A stream ReadFrame whose third read fetches 4 bytes more than the payload
\* and its checksum.
TcpAfterHeaderWideTrailer(headerBytes, allocOk) ==
    LET d == HeaderDecode(headerBytes, Len(headerBytes))
    IN  IF d.kind = "panic" THEN Returned(ReadPanic)
        ELSE IF d.kind = "err" THEN Returned(ReadErr("decode"))
        ELSE
          LET l4 == U64Add(d.h.Length, U64FromInt(8))
          IN  IF l4[1] # 0 THEN Returned(ReadPanic)
              ELSE IF ~U64Small(l4)
                   THEN IF allocOk THEN Blocked("payload", Limb, d.h)
                                   ELSE Returned(ReadPanic)
              ELSE IF U64ToInt(l4) = 0 THEN Returned(VerifyChecksum(d.h, <<>>))
              ELSE Blocked("payload", U64ToInt(l4), d.h)

\* tcpConnWrapper.ReadFrame from the decoded header on: the allocation of
\* h.Length+4 bytes and the third read, or the checksum check when nothing is
\* left to read.  A length of 2^48 or more is refused by make (a panic); one
\* of 2^16 or more is more than the model's stream ever holds, and the
\* allocation either aborts the process or succeeds and the read waits.
TcpAfterHeader(headerBytes, allocOk) ==
    LET d == HeaderDecode(headerBytes, Len(headerBytes))
    IN  IF d.kind = "panic" THEN Returned(ReadPanic)
        ELSE IF d.kind = "err" THEN Returned(ReadErr("decode"))
        ELSE
          LET l4 == U64Add(d.h.Length, U64FromInt(4))
          IN  IF l4[1] # 0 THEN Returned(ReadPanic)
              ELSE IF ~U64Small(l4)
                   THEN IF allocOk THEN Blocked("payload", Limb, d.h)
                                   ELSE Returned(ReadPanic)
              ELSE IF U64ToInt(l4) = 0 THEN Returned(VerifyChecksum(d.h, <<>>))
              ELSE Blocked("payload", U64ToInt(l4), d.h)

\* tcpConnWrapper.ReadFrame when the read of the current stage has filled its
\* buffer: what the reader does next.
TcpStageDone(rd, allocOk) ==
    IF rd.pc = "prefix"
    THEN IF rd.buf[1] = 0 THEN TcpAfterHeader(<<>>, allocOk)
                          ELSE Blocked("header", rd.buf[1], NilHeader)
    ELSE IF rd.pc = "header" THEN TcpAfterHeader(rd.buf, allocOk)
    ELSE Returned(VerifyChecksum(rd.h, rd.buf))

\* ------------------------------------------------------------------ inputs

\* WriteFrame calls made on a transport.
MaxFrames == 2

\* WriteFrame calls made before the bytes in flight are tampered with.
MaxWireFrames == 1

\* ReadFrame calls that return.
MaxReads == 3

Stamp == <<0, 399, 1234, 5678>>

\* time.Now().UnixMilli() at the call.
Now == <<0, 401, 4321, 8765>>

\* time.Now().UnixMilli() at a later call.
Later == <<0, 401, 4321, 8766>>

\* HeaderEncode calls made again on a header that was already encoded.
MaxEncodes == 2

CallerHeader(mt, recv, proto, ts) ==
    [ID |-> Uuid(5), Sender |-> Uuid(2), Receiver |-> recv, Timestamp |-> ts,
     Length |-> U64FromInt(100), Sequence |-> <<0, 42>>, Protocol |-> proto,
     Flags |-> FlagEncrypted, MessageType |-> mt, Router |-> 42]

HData == CallerHeader(MessageTypeData, UuidNil, ProtocolTCP, U64Zero)

HBroadcast == CallerHeader(MessageTypeBroadcast, Uuid(4), ProtocolUDP, Stamp)

HBroadcastNoReceiver == CallerHeader(MessageTypeBroadcast, UuidNil, ProtocolTCP, Stamp)

HBroadcastStream == CallerHeader(MessageTypeBroadcast, Uuid(4), ProtocolTCP, Stamp)

HDataReceiver == CallerHeader(MessageTypeData, Uuid(4), ProtocolUDP, U64Zero)

HDataStamped == CallerHeader(MessageTypeData, UuidNil, ProtocolTCP, Stamp)

\* The WriteFrame calls the callers make: <<header, payload>>.
Calls ==
    { <<HData, <<>>>>, <<HData, <<7, 9>>>>, <<HBroadcast, <<7, 9>>>>,
      <<HBroadcastNoReceiver, <<>>>>, <<HDataReceiver, <<7, 9>>>>,
      <<HBroadcastStream, <<7, 9>>>>, <<NilHeader, <<7, 9>>>> }

\* The calls whose frames are tampered with in flight.
WireCalls ==
    { <<HDataStamped, <<7, 9>>>>, <<HBroadcastNoReceiver, <<7, 9>>>>,
      <<HBroadcastNoReceiver, <<>>>> }

\* The values a byte in flight is changed to.
FlipValues == { 0, 1, 2, 255 }

\* The maximum message sizes a datagram transport is constructed with.
MaxSizes == { 62, 96 }

Senders == { Uuid(1), Uuid(3) }

\* The headers handed to HeaderEncode directly: every message type, both
\* protocols, with and without a receiver, a timestamp and a sequence.
CodecHeaders ==
    { [ID |-> Uuid(5), Sender |-> Uuid(2), Receiver |-> recv, Timestamp |-> ts,
       Length |-> len, Sequence |-> sq, Protocol |-> proto,
       Flags |-> FlagEncrypted, MessageType |-> mt, Router |-> 1] :
         mt \in MessageTypeUnknown..MessageTypeHeartbeat,
         recv \in {UuidNil, Uuid(4)},
         proto \in {ProtocolTCP, ProtocolUDP},
         ts \in {U64Zero, Stamp},
         len \in {U64Zero, <<1, 2, 3, 100>>},
         sq \in {U32Zero, <<1, 42>>} }
    \cup {NilHeader}

\* ------------------------------------------------------------------ state

VARIABLES
    kind,            \* "tcp" | "udp": the transport variant of the pair
    age,             \* "new": just constructed; "old": 2^32-1 frames written
    sender,          \* the writing transport's sender identity
    sequence,        \* the datagram transport's counter (uint32)
    maxMessageSize,  \* the datagram transports' maximum message size
    closed,          \* the writing side closed its stream connection
    wire,            \* tcp: the bytes in flight; udp: the datagrams in flight
    nwrites,         \* WriteFrame calls made
    wres,            \* the last WriteFrame call: arguments and outcome
    sent,            \* the (header, payload) pairs transmitted, in order
    rd,              \* the stream reader's position inside ReadFrame
    nreads,          \* ReadFrame calls that returned
    rres,            \* what the last ReadFrame returned
    recvd,           \* the (header, payload) pairs ReadFrame returned, in order
    tampered,        \* the change made to the bytes in flight, if any
    codec,           \* a header on its way through HeaderEncode and HeaderDecode
    addr,            \* the datagram transport's remote address (u.addr)
    inbox,           \* the datagrams waiting at the transport's socket
    outbox,          \* the pc.WriteTo calls the transport made, in order
    thr,             \* the threads calling into one transport concurrently
    api,             \* the last Close, SetSender or GetSender on one transport
    logger,          \* a Logger, its file, the console and its callers
    config,          \* a SocketConfig and what Validate returned for it
    deadlines        \* the packet channel's deadlines and the clock

vars == <<kind, age, sender, sequence, maxMessageSize, closed, wire, nwrites,
          wres, sent, rd, nreads, rres, recvd, tampered, codec, addr, inbox,
          outbox, thr, api, logger, config, deadlines>>

\* A net.Addr is an interface value of two words: the type word and the
\* pointer to the address; the nil interface has both zero.
AddrNil == [tab |-> "nil", data |-> 0]

\* The address of remote host k (a *net.UDPAddr).
Addr(k) == [tab |-> "UDPAddr", data |-> k]

\* No thread is inside a call.
NoThreads == <<>>

\* No Close, SetSender or GetSender call was made yet; given is the identity
\* the constructor generated.
NoApi == [op |-> "none", err |-> "", id |-> UuidNil, closes |-> 0,
          given |-> Uuid(1)]

\* No SocketConfig was made.
NoConfig == [src |-> "none"]

\* No deadline was set on the packet channel; the clock reads 0.
NoDeadlines == [read |-> 0, write |-> 0, now |-> 0, op |-> "none", err |-> ""]

\* No Logger was constructed.
NoLogger == [pc |-> "off"]

NoTamper == [done |-> FALSE, pos |-> 0, old |-> 0, new |-> 0]

CodecOff == [pc |-> "off", h |-> NilHeader, enc |-> HeaderEncode(NilHeader, Now),
             dec |-> DecodeErr, arr |-> <<>>, n |-> 0, times |-> 0]

\* The counter of a transport that has written 2^32-1 frames.
SequenceMax == <<65535, 65535>>

\* NewTCPConnWrapper / NewUDPConnWrapper on both ends of a connection; a
\* datagram transport may also be one that has been in use for long.
TransportInit ==
    /\ kind \in {"tcp", "udp"}
    /\ age \in (IF kind = "udp" THEN {"new", "old"} ELSE {"new"})
    /\ sender = Uuid(1)
    /\ sequence = (IF age = "new" THEN U32Zero ELSE SequenceMax)
    /\ maxMessageSize \in (IF kind = "udp" THEN MaxSizes ELSE {0})
    /\ closed = FALSE
    /\ wire = <<>>
    /\ nwrites = 0
    /\ wres = NoWrite
    /\ sent = <<>>
    /\ rd = IdleReader
    /\ nreads = 0
    /\ rres = NoRead
    /\ recvd = <<>>
    /\ tampered = NoTamper
    /\ addr = AddrNil
    /\ inbox = <<>>
    /\ outbox = <<>>
    /\ thr = NoThreads
    /\ api = NoApi
    /\ logger = NoLogger
    /\ config = NoConfig
    /\ deadlines = NoDeadlines

Call(header, payload, b, err, msg) ==
    [called |-> TRUE, err |-> err, hin |-> header, h |-> b.h,
     payload |-> payload, msg |-> msg, sender |-> sender, seq |-> sequence]

\* tcpConnWrapper.WriteFrame; conn.Write fails on a closed connection.
TcpWriteFrameOf(header, payload, bound) ==
    /\ kind = "tcp"
    /\ nwrites < bound
    /\ \E b \in {TcpBuild(header, payload, Now, sender)} :
       LET err == IF b.err # "" THEN b.err ELSE IF closed THEN "closed" ELSE ""
       IN  /\ wres' = Call(header, payload, b, err, IF err = "" THEN b.msg ELSE <<>>)
           /\ wire' = IF err = "" THEN wire \o b.msg ELSE wire
           /\ sent' = IF err = "" THEN Append(sent, [h |-> b.h, payload |-> payload])
                                  ELSE sent
    /\ nwrites' = nwrites + 1
    /\ UNCHANGED <<config, deadlines, api, logger, kind, age, sender, sequence, maxMessageSize, closed, rd, nreads,
                   rres, recvd, tampered, codec, addr, inbox, outbox, thr>>

\* udpConnWrapper.WriteFrame; sendOk is whether pc.WriteTo succeeds.
UdpWriteFrameOf(header, payload, sendOk, bound) ==
    /\ kind = "udp"
    /\ nwrites < bound
    /\ \E b \in {UdpBuild(header, payload, Now, sender, sequence, maxMessageSize)} :
       LET err == IF b.err # "" THEN b.err ELSE IF ~sendOk THEN "send" ELSE ""
       IN  /\ wres' = Call(header, payload, b, err, IF err = "" THEN b.msg ELSE <<>>)
           /\ wire' = IF err = "" THEN Append(wire, b.msg) ELSE wire
           /\ sent' = IF err = "" THEN Append(sent, [h |-> b.h, payload |-> payload])
                                  ELSE sent
           /\ sequence' = b.seq
    /\ nwrites' = nwrites + 1
    /\ UNCHANGED <<config, deadlines, api, logger, kind, age, sender, maxMessageSize, closed, rd, nreads, rres,
                   recvd, tampered, codec, addr, inbox, outbox, thr>>

TcpWriteFrame ==
    \E c \in Calls : TcpWriteFrameOf(c[1], c[2], MaxFrames)

UdpWriteFrame ==
    \E c \in Calls, sendOk \in BOOLEAN :
        UdpWriteFrameOf(c[1], c[2], sendOk, MaxFrames)

\* SetSender on the writing transport.
SetSender ==
    /\ kind \in {"tcp", "udp"}
    /\ \E id \in Senders \ {sender} : sender' = id
    /\ UNCHANGED <<config, deadlines, api, logger, kind, age, sequence, maxMessageSize, closed, wire, nwrites,
                   wres, sent, rd, nreads, rres, recvd, tampered, codec, addr, inbox, outbox, thr>>

\* tcpConnWrapper.Close on the writing side: the reader sees end of stream
\* once the bytes in flight are consumed.
TcpClose ==
    /\ kind = "tcp"
    /\ ~closed
    /\ closed' = TRUE
    /\ UNCHANGED <<config, deadlines, api, logger, kind, age, sender, sequence, maxMessageSize, wire, nwrites,
                   wres, sent, rd, nreads, rres, recvd, tampered, codec, addr, inbox, outbox, thr>>

\* ReadFrame goes on (res.kind = "none") or returns res.
Deliver(o) ==
    \E out \in {o} :
        /\ rd' = out.rd
        /\ nreads' = IF out.res.kind = "none" THEN nreads ELSE nreads + 1
        /\ rres' = IF out.res.kind = "none" THEN rres ELSE out.res
        /\ recvd' = IF out.res.kind = "ok"
                    THEN Append(recvd, [h |-> out.res.h, payload |-> out.res.payload])
                    ELSE recvd

\* tcpConnWrapper.ReadFrame is entered: the first read wants one byte.
TcpReadStart ==
    /\ kind = "tcp"
    /\ rd.pc = "idle"
    /\ nreads < MaxReads
    /\ rd' = [pc |-> "prefix", buf |-> <<>>, need |-> 1, h |-> NilHeader]
    /\ UNCHANGED <<config, deadlines, api, logger, kind, age, sender, sequence, maxMessageSize, closed, wire,
                   nwrites, wres, sent, nreads, rres, recvd, tampered, codec, addr, inbox, outbox, thr>>

\* One conn.Read inside io.ReadFull returns k of the bytes in flight.
TcpReadK(k, allocOk) ==
    /\ kind = "tcp"
    /\ rd.pc \in {"prefix", "header", "payload"}
    /\ k >= 1
    /\ k <= Len(wire)
    /\ k <= rd.need - Len(rd.buf)
    /\ LET buf == rd.buf \o SubSeq(wire, 1, k)
           rd2 == [rd EXCEPT !.buf = buf]
       IN  IF ReadFullDone(buf, rd.need)
           THEN Deliver(TcpStageDone(rd2, allocOk))
           ELSE Deliver([rd |-> rd2, res |-> NoRead])
    /\ wire' = SubSeq(wire, k + 1, Len(wire))
    /\ UNCHANGED <<config, deadlines, api, logger, kind, age, sender, sequence, maxMessageSize, closed, nwrites,
                   wres, sent, tampered, codec, addr, inbox, outbox, thr>>

\* The bytes the current read can return: those in flight, up to what the
\* stage still wants.
Wanted == IF Len(wire) < rd.need - Len(rd.buf) THEN Len(wire)
          ELSE rd.need - Len(rd.buf)

\* Whether the allocation of the payload buffer succeeds matters only when
\* the read that fills the header buffer returns.
AllocChoices(k) ==
    IF rd.pc = "header" /\ Len(rd.buf) + k = rd.need THEN BOOLEAN ELSE {TRUE}

\* The read returns all the stage still wants, or half of it.
TcpRead ==
    \E k \in {Wanted, (Wanted + 1) \div 2} :
        \E allocOk \in AllocChoices(k) : TcpReadK(k, allocOk)

\* The read returns all the stage still wants.
TcpReadAll ==
    \E allocOk \in AllocChoices(Wanted) : TcpReadK(Wanted, allocOk)

\* io.ReadFull at the end of a closed stream: EOF or ErrUnexpectedEOF.
TcpReadEOF ==
    /\ kind = "tcp"
    /\ rd.pc \in {"prefix", "header", "payload"}
    /\ closed
    /\ wire = <<>>
    /\ Deliver(Returned(ReadErr("read")))
    /\ UNCHANGED <<config, deadlines, api, logger, kind, age, sender, sequence, maxMessageSize, closed, wire,
                   nwrites, wres, sent, tampered, codec, addr, inbox, outbox, thr>>

\* udpConnWrapper.ReadFrame: one datagram is received and parsed.
UdpReadFrame ==
    /\ kind = "udp"
    /\ rd.pc = "idle"
    /\ nreads < MaxReads
    /\ wire # <<>>
    /\ Deliver(Returned(UdpParse(Head(wire), maxMessageSize)))
    /\ wire' = Tail(wire)
    /\ UNCHANGED <<config, deadlines, api, logger, kind, age, sender, sequence, maxMessageSize, closed, nwrites,
                   wres, sent, tampered, codec, addr, inbox, outbox, thr>>

Init == TransportInit /\ codec = CodecOff

Next ==
    \/ TcpWriteFrame
    \/ UdpWriteFrame
    \/ SetSender
    \/ TcpClose
    \/ TcpReadStart
    \/ TcpRead
    \/ TcpReadEOF
    \/ UdpReadFrame

\* The two transports over a connection that delivers what was written.
Spec == Init /\ [][Next]_vars

\* ------------------------------------------------------------------ tampering

\* The length of the frame WriteFrame built for a transmitted pair.
FrameLen(s) == 1 + HeaderSize(s.h) + Len(s.payload) + 4

WireTcpWriteFrame ==
    \E c \in WireCalls : TcpWriteFrameOf(c[1], c[2], MaxWireFrames)

WireUdpWriteFrame ==
    \E c \in WireCalls : UdpWriteFrameOf(c[1], c[2], TRUE, MaxWireFrames)

\* One byte of the first frame in flight is changed before it is read.
Corrupt ==
    /\ kind \in {"tcp", "udp"}
    /\ ~tampered.done
    /\ sent # <<>>
    /\ nreads = 0
    /\ rd.pc = "idle"
    /\ \E pos \in 1..FrameLen(sent[1]) :
         LET old == IF kind = "tcp" THEN wire[pos] ELSE wire[1][pos]
         IN  \E new \in FlipValues \ {old} :
               /\ wire' = IF kind = "tcp" THEN [wire EXCEPT ![pos] = new]
                                          ELSE [wire EXCEPT ![1][pos] = new]
               /\ tampered' = [done |-> TRUE, pos |-> pos, old |-> old, new |-> new]
    /\ UNCHANGED <<config, deadlines, api, logger, kind, age, sender, sequence, maxMessageSize, closed, nwrites,
                   wres, sent, rd, nreads, rres, recvd, codec, addr, inbox, outbox, thr>>

WireInit == TransportInit /\ age = "new" /\ codec = CodecOff

WireNext ==
    \/ WireTcpWriteFrame
    \/ WireUdpWriteFrame
    \/ Corrupt
    \/ TcpClose
    \/ TcpReadStart
    \/ TcpReadAll
    \/ TcpReadEOF
    \/ UdpReadFrame

\* The two transports over a connection on which a byte may be changed.
SpecWire == WireInit /\ [][WireNext]_vars

\* ------------------------------------------------------------------ codec

TransportOff ==
    /\ kind = "off"
    /\ age = "new"
    /\ sender = UuidNil
    /\ sequence = U32Zero
    /\ maxMessageSize = 0
    /\ closed = FALSE
    /\ wire = <<>>
    /\ nwrites = 0
    /\ wres = NoWrite
    /\ sent = <<>>
    /\ rd = IdleReader
    /\ nreads = 0
    /\ rres = NoRead
    /\ recvd = <<>>
    /\ tampered = NoTamper
    /\ addr = AddrNil
    /\ inbox = <<>>
    /\ outbox = <<>>
    /\ thr = NoThreads
    /\ api = NoApi
    /\ deadlines = NoDeadlines

transportVars == <<kind, age, sender, sequence, maxMessageSize, closed, wire,
                   nwrites, wres, sent, rd, nreads, rres, recvd, tampered,
                   addr, inbox, outbox, thr, api, logger, config, deadlines>>

CodecInit ==
    /\ TransportOff
    /\ logger = NoLogger
    /\ config = NoConfig
    /\ \E h \in CodecHeaders : codec = [CodecOff EXCEPT !.pc = "start", !.h = h]

\* HeaderEncode(h)
CodecEncode ==
    /\ codec.pc = "start"
    /\ \E enc \in {HeaderEncode(codec.h, Now)} :
         codec' = [codec EXCEPT !.pc = IF enc.err THEN "failed" ELSE "encoded",
                                !.enc = enc]
    /\ UNCHANGED transportVars

\* HeaderEncode(h) once more, later, on the header object the previous call
\* left behind.
CodecEncodeAgain ==
    /\ codec.pc = "encoded"
    /\ codec.times < MaxEncodes
    /\ codec' = [codec EXCEPT !.enc = HeaderEncode(codec.enc.h, Later),
                              !.times = codec.times + 1]
    /\ UNCHANGED transportVars

\* HeaderDecode(encoded): the slice HeaderEncode made is as long as its
\* capacity.
CodecDecode ==
    /\ codec.pc = "encoded"
    /\ codec' = [codec EXCEPT !.pc = "decoded",
                              !.dec = HeaderDecode(codec.enc.bytes,
                                                   Len(codec.enc.bytes))]
    /\ UNCHANGED transportVars

CodecNext ==
    \/ CodecEncode
    \/ CodecEncodeAgain
    \/ CodecDecode

\* HeaderEncode followed by HeaderDecode, on every header of CodecHeaders.
SpecCodec == CodecInit /\ [][CodecNext]_vars

\* ------------------------------------------------------------------ decoding

\* The longest input handed to HeaderDecode directly.
MaxInputLen == 74

\* The largest encoded header: a broadcast of the datagram protocol.
FullHeaderBytes ==
    HeaderBytes(CallerHeader(MessageTypeBroadcast, Uuid(4), ProtocolUDP, Stamp))

\* Bytes that follow the header in the array the input is a slice of.
Spare == 20

\* An array of cap bytes that starts with an encoded header whose
\* MessageType and Protocol control bytes are mt and proto.
InputArray(cap, mt, proto) ==
    [i \in 1..cap |->
        IF i = 50 THEN mt
        ELSE IF i = 52 THEN proto
        ELSE IF i <= Len(FullHeaderBytes) THEN FullHeaderBytes[i]
        ELSE 9]

\* The inputs of HeaderDecode: data = arr[:n], with cap(data) = Len(arr).
DecodeInputs ==
    { [arr |-> InputArray(n + spare, mt, proto), n |-> n] :
        n \in 0..MaxInputLen,
        spare \in {0, 4, Spare},
        mt \in {MessageTypeData, MessageTypeBroadcast},
        proto \in {ProtocolTCP, ProtocolUDP} }

DecodeInit ==
    /\ TransportOff
    /\ logger = NoLogger
    /\ config = NoConfig
    /\ \E in \in DecodeInputs :
         codec = [CodecOff EXCEPT !.pc = "input", !.arr = in.arr, !.n = in.n]

\* HeaderDecode(data) on the input.
DecodeInput ==
    /\ codec.pc = "input"
    /\ codec' = [codec EXCEPT !.pc = "decodedinput",
                              !.dec = HeaderDecode(codec.arr, codec.n)]
    /\ UNCHANGED transportVars

DecodeNext ==
    \/ DecodeInput

\* HeaderDecode on byte sequences of every length up to MaxInputLen.
SpecDecode == DecodeInit /\ [][DecodeNext]_vars

\* ------------------------------------------------------------------ peers

\* Datagrams that arrive at one transport's socket.
MaxPackets == 2

\* WriteFrame calls made on that transport.
MaxPeerWrites == 2

\* The remote hosts that send to the transport.
Hosts == { 1, 2 }

\* Frames a remote transport built with WriteFrame: 63 and 61 bytes.
GoodFrame == UdpBuild(HData, <<7, 9>>, Now, Uuid(3), <<0, 7>>, 96).msg

GoodSmall == UdpBuild(HData, <<>>, Now, Uuid(3), <<0, 8>>, 96).msg

\* The first k bytes of a packet.
Truncate(pkt, k) == SubSeq(pkt, 1, k)

\* The packet with its byte at pos (from 1) replaced.
WithByte(pkt, pos, b) == [pkt EXCEPT ![pos] = b]

\* The packet with bytes behind its last one.
Padded(pkt, extra) == pkt \o extra

\* The packet with the Length field of its header replaced.
WithLength(pkt, len) ==
    LET bytes == PutUint64(len)
    IN  [i \in 1..Len(pkt) |->
            IF i >= 42 /\ i <= 49 THEN bytes[i - 41] ELSE pkt[i]]

\* What a remote host may send: good frames, cut frames, frames whose Length
\* field, payload or control bytes were changed, frames with bytes added.
Packets ==
    { GoodFrame, GoodSmall, <<>>,
      Truncate(GoodFrame, 30), Truncate(GoodFrame, 57),
      WithLength(GoodFrame, U64FromInt(3)),
      WithLength(GoodFrame, U64FromInt(1)),
      WithLength(GoodFrame, <<0, 1, 0, 0>>),
      WithLength(GoodFrame, <<65535, 65535, 65535, 65532>>),
      WithByte(GoodFrame, 58, 8),
      WithByte(GoodSmall, 53, ProtocolTCP),
      Padded(GoodSmall, <<0, 0, 0>>) }

\* The remote address left as it was.
KeepPeer(old, src) == old

\* u.addr = addr
RecordPeer(old, src) == src

\* pc.WriteTo fails for an address that is nil or half written.
Complete(a) == a.tab = "UDPAddr" /\ a.data # 0

PeerInit ==
    /\ kind = "udp"
    /\ age = "new"
    /\ sender = Uuid(1)
    /\ sequence = U32Zero
    /\ maxMessageSize \in MaxSizes
    /\ closed = FALSE
    /\ wire = <<>>
    /\ nwrites = 0
    /\ wres = NoWrite
    /\ sent = <<>>
    /\ rd = IdleReader
    /\ nreads = 0
    /\ rres = NoRead
    /\ recvd = <<>>
    /\ tampered = NoTamper
    /\ codec = CodecOff
    /\ addr \in {AddrNil, Addr(1)}
    /\ inbox = <<>>
    /\ outbox = <<>>
    /\ thr = NoThreads
    /\ api = NoApi
    /\ logger = NoLogger
    /\ config = NoConfig
    /\ deadlines = NoDeadlines

\* A datagram from a remote host reaches the socket, one at a time.
PeerSend ==
    /\ kind = "udp"
    /\ thr = NoThreads
    /\ inbox = <<>>
    /\ nreads < MaxPackets
    /\ \E k \in Hosts, data \in Packets :
         inbox' = Append(inbox, [src |-> Addr(k), data |-> data])
    /\ UNCHANGED <<config, deadlines, api, logger, kind, age, sender, sequence, maxMessageSize, closed, wire,
                   nwrites, wres, sent, rd, nreads, rres, recvd, tampered,
                   codec, addr, outbox, thr>>

\* udpConnWrapper.ReadFrame receives a datagram: the source is recorded, then
\* the packet is parsed.
PeerReadFrame ==
    /\ kind = "udp"
    /\ thr = NoThreads
    /\ rd.pc = "idle"
    /\ inbox # <<>>
    /\ addr' = RecordPeer(addr, Head(inbox).src)
    /\ Deliver(Returned(UdpParse(Head(inbox).data, maxMessageSize)))
    /\ inbox' = Tail(inbox)
    /\ UNCHANGED <<config, deadlines, api, logger, kind, age, sender, sequence, maxMessageSize, closed, wire,
                   nwrites, wres, sent, tampered, codec, outbox, thr>>

\* The WriteFrame calls made on the transport.
PeerCalls == { <<HData, <<>>>>, <<HData, <<7, 9>>>> }

\* udpConnWrapper.WriteFrame: the message goes to pc.WriteTo with u.addr.
PeerWriteFrame ==
    /\ kind = "udp"
    /\ thr = NoThreads
    /\ rd.pc # "crashed"
    /\ nwrites < MaxPeerWrites
    /\ \E c \in PeerCalls :
         \E b \in {UdpBuild(c[1], c[2], Now, sender, sequence, maxMessageSize)} :
           LET err == IF b.err # "" THEN b.err
                      ELSE IF ~Complete(addr) THEN "send" ELSE ""
           IN  /\ wres' = Call(c[1], c[2], b, err, IF err = "" THEN b.msg ELSE <<>>)
               /\ outbox' = IF b.err = ""
                            THEN Append(outbox, [dst |-> addr, msg |-> b.msg])
                            ELSE outbox
               /\ sequence' = b.seq
    /\ nwrites' = nwrites + 1
    /\ UNCHANGED <<config, deadlines, api, logger, kind, age, sender, maxMessageSize, closed, wire, sent, rd,
                   nreads, rres, recvd, tampered, codec, addr, inbox, thr>>

PeerNext ==
    \/ PeerSend
    \/ PeerReadFrame
    \/ PeerWriteFrame

\* One datagram transport that reads what remote hosts send it and writes to
\* its remote address, one call at a time.
SpecPeer == PeerInit /\ [][PeerNext]_vars

\* ------------------------------------------------------------------ threads

\* The threads that call WriteFrame on one datagram transport.
Writers == { "w1", "w2" }

\* A writer before its call and the reader before its call.
WriterIdle ==
    [pc |-> "idle", header |-> NilHeader, payload |-> <<>>, h |-> NilHeader,
     tmp |-> U32Zero, at |-> AddrNil, dst |-> AddrNil, msg |-> <<>>, err |-> ""]

ReaderIdle == [pc |-> "idle", src |-> AddrNil, data |-> <<>>, word |-> ""]

\* The packets waiting at the socket when the threads start.
ConcPackets == { GoodFrame, GoodSmall, Truncate(GoodFrame, 30) }

ConcInit ==
    /\ kind = "udp"
    /\ age = "new"
    /\ sender = Uuid(1)
    /\ sequence = U32Zero
    /\ maxMessageSize \in MaxSizes
    /\ closed = FALSE
    /\ wire = <<>>
    /\ nwrites = 0
    /\ wres = NoWrite
    /\ sent = <<>>
    /\ rd = IdleReader
    /\ nreads = 0
    /\ rres = NoRead
    /\ recvd = <<>>
    /\ tampered = NoTamper
    /\ codec = CodecOff
    /\ addr \in {AddrNil, Addr(1)}
    /\ \E k \in Hosts, data \in ConcPackets :
         inbox = <<[src |-> Addr(k), data |-> data]>>
    /\ outbox = <<>>
    /\ thr = [w1 |-> WriterIdle, w2 |-> WriterIdle, r |-> ReaderIdle]
    /\ api = NoApi
    /\ logger = NoLogger
    /\ config = NoConfig
    /\ deadlines = NoDeadlines

\* WriteFrame is entered on thread t: header.Sender = u.sender,
\* header.Protocol = ProtocolUDP, header.Sequence = u.sequence.
WStamp(t) ==
    /\ thr # NoThreads
    /\ thr[t].pc = "idle"
    /\ \E c \in PeerCalls :
         thr' = [thr EXCEPT ![t] =
                   [@ EXCEPT !.pc = "stamped", !.header = c[1], !.payload = c[2],
                             !.h = UdpStamp(c[1], sender, sequence),
                             !.at = addr]]
    /\ UNCHANGED <<config, deadlines, api, logger, kind, age, sender, sequence, maxMessageSize, closed, wire,
                   nwrites, wres, sent, rd, nreads, rres, recvd, tampered,
                   codec, addr, inbox, outbox>>

\* u.sequence++ is a load and a store; the load.
WLoad(t) ==
    /\ thr # NoThreads
    /\ thr[t].pc = "stamped"
    /\ thr' = [thr EXCEPT ![t] = [@ EXCEPT !.pc = "loaded", !.tmp = sequence]]
    /\ UNCHANGED <<config, deadlines, api, logger, kind, age, sender, sequence, maxMessageSize, closed, wire,
                   nwrites, wres, sent, rd, nreads, rres, recvd, tampered,
                   codec, addr, inbox, outbox>>

\* The store of u.sequence++.
WStore(t) ==
    /\ thr # NoThreads
    /\ thr[t].pc = "loaded"
    /\ sequence' = U32Inc(thr[t].tmp)
    /\ thr' = [thr EXCEPT ![t] = [@ EXCEPT !.pc = "stored"]]
    /\ UNCHANGED <<config, deadlines, api, logger, kind, age, sender, maxMessageSize, closed, wire, nwrites,
                   wres, sent, rd, nreads, rres, recvd, tampered, codec, addr,
                   inbox, outbox>>

\* The rest of WriteFrame: the frame is built from the stamped header and
\* handed to pc.WriteTo with u.addr as it reads now.
WSend(t) ==
    /\ thr # NoThreads
    /\ thr[t].pc = "stored"
    /\ \E b \in {UdpBuild(thr[t].header, thr[t].payload, Now, thr[t].h.Sender,
                         thr[t].h.Sequence, maxMessageSize)} :
         LET err == IF b.err # "" THEN b.err
                    ELSE IF ~Complete(addr) THEN "send" ELSE ""
         IN  /\ thr' = [thr EXCEPT ![t] =
                          [@ EXCEPT !.pc = "done", !.h = b.h, !.err = err,
                                    !.dst = IF b.err = "" THEN addr ELSE AddrNil,
                                    !.msg = b.msg]]
             /\ outbox' = IF b.err = ""
                          THEN Append(outbox, [dst |-> addr, msg |-> b.msg])
                          ELSE outbox
    /\ UNCHANGED <<config, deadlines, api, logger, kind, age, sender, sequence, maxMessageSize, closed, wire,
                   nwrites, wres, sent, rd, nreads, rres, recvd, tampered,
                   codec, addr, inbox>>

\* ReadFrame on the reader thread: pc.ReadFrom returns a datagram.
RRecv ==
    /\ thr # NoThreads
    /\ thr.r.pc = "idle"
    /\ inbox # <<>>
    /\ thr' = [thr EXCEPT !.r = [pc |-> "received", src |-> Head(inbox).src,
                                 data |-> Head(inbox).data, word |-> ""]]
    /\ inbox' = Tail(inbox)
    /\ UNCHANGED <<config, deadlines, api, logger, kind, age, sender, sequence, maxMessageSize, closed, wire,
                   nwrites, wres, sent, rd, nreads, rres, recvd, tampered,
                   codec, addr, outbox>>

\* u.addr = addr stores the two words of the interface value one after the
\* other, in an order the build chooses; the first store.
RStoreFirst ==
    /\ thr # NoThreads
    /\ thr.r.pc = "received"
    /\ \E w \in {"tab", "data"} :
         /\ addr' = IF w = "tab" THEN [addr EXCEPT !.tab = thr.r.src.tab]
                                 ELSE [addr EXCEPT !.data = thr.r.src.data]
         /\ thr' = [thr EXCEPT !.r = [@ EXCEPT !.pc = "half", !.word = w]]
    /\ UNCHANGED <<config, deadlines, api, logger, kind, age, sender, sequence, maxMessageSize, closed, wire,
                   nwrites, wres, sent, rd, nreads, rres, recvd, tampered,
                   codec, inbox, outbox>>

\* The second store: u.addr is the packet's source.
RStoreSecond ==
    /\ thr # NoThreads
    /\ thr.r.pc = "half"
    /\ addr' = RecordPeer(addr, thr.r.src)
    /\ thr' = [thr EXCEPT !.r = [@ EXCEPT !.pc = "recorded"]]
    /\ UNCHANGED <<config, deadlines, api, logger, kind, age, sender, sequence, maxMessageSize, closed, wire,
                   nwrites, wres, sent, rd, nreads, rres, recvd, tampered,
                   codec, inbox, outbox>>

\* The rest of ReadFrame: the packet is parsed and the call returns.
RParse ==
    /\ thr # NoThreads
    /\ thr.r.pc = "recorded"
    /\ Deliver(Returned(UdpParse(thr.r.data, maxMessageSize)))
    /\ thr' = [thr EXCEPT !.r = [@ EXCEPT !.pc = "done"]]
    /\ UNCHANGED <<config, deadlines, api, logger, kind, age, sender, sequence, maxMessageSize, closed, wire,
                   nwrites, wres, sent, tampered, codec, addr, inbox, outbox>>

ConcNext ==
    \/ \E t \in Writers : WStamp(t)
    \/ \E t \in Writers : WLoad(t)
    \/ \E t \in Writers : WStore(t)
    \/ \E t \in Writers : WSend(t)
    \/ RRecv
    \/ RStoreFirst
    \/ RStoreSecond
    \/ RParse

\* One datagram transport with a reader thread and two writer threads, each
\* making one call, interleaved at the accesses to u.sequence and u.addr.
SpecConc == ConcInit /\ [][ConcNext]_vars

\* ------------------------------------------------------------------ scenario

\* The header and the payload "hello from tcp client" of TestTCPConnection.
ScenarioHeader ==
    [ID |-> Uuid(5), Sender |-> Uuid(2), Receiver |-> UuidNil,
     Timestamp |-> U64Zero, Length |-> U64Zero, Sequence |-> U32Zero,
     Protocol |-> ProtocolTCP, Flags |-> FlagNone,
     MessageType |-> MessageTypeData, Router |-> 42]

Hello ==
    <<104, 101, 108, 108, 111, 32, 102, 114, 111, 109, 32, 116, 99, 112, 32,
      99, 108, 105, 101, 110, 116>>

ScenarioInit == TransportInit /\ kind = "tcp" /\ codec = CodecOff

\* wrapped.WriteFrame(header, payload) of the client, once.
ScenarioWriteFrame == TcpWriteFrameOf(ScenarioHeader, Hello, 1)

ScenarioNext ==
    \/ ScenarioWriteFrame
    \/ SetSender
    \/ TcpClose
    \/ TcpReadStart
    \/ TcpRead
    \/ TcpReadEOF

\* The client writes the frame over a stream pair and the server reads it.
SpecScenario == ScenarioInit /\ [][ScenarioNext]_vars

\* ------------------------------------------------------------------ endpoint

\* Close calls made on one transport.
MaxCloses == 2

\* A Close of the datagram transport that closes the packet channel.
UdpCloseClosing(c) == [closed |-> TRUE, err |-> ""]

\* udpConnWrapper.Close: return nil; c is whether the packet channel is
\* closed.
UdpCloseOf(c) == [closed |-> c, err |-> ""]

\* tcpConnWrapper.Close: return t.conn.Close(); a connection that is closed
\* already answers with an error.
TcpCloseOf(c) == [closed |-> TRUE, err |-> IF c THEN "closed" ELSE ""]

\* A GetSender that answers with the nil identity.
GetSenderNil(s) == UuidNil

\* GetSender on both transports: return the sender field.
GetSender(s) == s

\* Frames the remote side of a stream or a remote host sends: one built by
\* WriteFrame and one whose payload was changed on the way.
EndFrames ==
    IF kind = "tcp"
    THEN LET msg == TcpBuild(HData, <<7, 9>>, Now, Uuid(3)).msg
         IN  { msg, WithByte(msg, Len(msg) - 4, 8) }
    ELSE { GoodFrame, WithByte(GoodFrame, 58, 8) }

EndInit ==
    /\ kind \in {"tcp", "udp"}
    /\ age = "new"
    /\ sender = Uuid(1)
    /\ sequence = U32Zero
    /\ maxMessageSize = (IF kind = "udp" THEN 96 ELSE 0)
    /\ closed = FALSE
    /\ wire = <<>>
    /\ nwrites = 0
    /\ wres = NoWrite
    /\ sent = <<>>
    /\ rd = IdleReader
    /\ nreads = 0
    /\ rres = NoRead
    /\ recvd = <<>>
    /\ tampered = NoTamper
    /\ codec = CodecOff
    /\ addr = (IF kind = "udp" THEN Addr(1) ELSE AddrNil)
    /\ inbox = <<>>
    /\ outbox = <<>>
    /\ thr = NoThreads
    /\ api = NoApi
    /\ logger = NoLogger
    /\ config = NoConfig
    /\ deadlines = NoDeadlines

\* A frame from the remote side reaches the transport, one at a time.
EndArrive ==
    /\ inbox = <<>>
    /\ nreads < MaxPackets
    /\ \E data \in EndFrames : inbox' = <<[src |-> Addr(2), data |-> data]>>
    /\ UNCHANGED <<config, deadlines, api, logger, kind, age, sender, sequence, maxMessageSize,
                   closed, wire, nwrites, wres, sent, rd, nreads, rres, recvd,
                   tampered, codec, addr, outbox, thr>>

\* The three reads of tcpConnWrapper.ReadFrame over the bytes that arrived:
\* each stage takes what it wants and the next goes on with the rest.
RECURSIVE TcpFeed(_, _)
TcpFeed(r, bytes) ==
    IF Len(bytes) < r.need
    THEN [rd |-> [r EXCEPT !.buf = bytes], res |-> NoRead]
    ELSE LET o == TcpStageDone([r EXCEPT !.buf = SubSeq(bytes, 1, r.need)], TRUE)
         IN  IF o.res.kind # "none" THEN o
             ELSE TcpFeed(o.rd, SubSeq(bytes, r.need + 1, Len(bytes)))

\* tcpConnWrapper.ReadFrame on the transport: conn.Read on a connection this
\* side closed fails at once, otherwise the frame that arrived is read.
EndTcpReadFrame ==
    /\ kind = "tcp"
    /\ rd.pc = "idle"
    /\ nreads < MaxPackets
    /\ IF closed
       THEN /\ Deliver(Returned(ReadErr("closed")))
            /\ inbox' = inbox
       ELSE /\ inbox # <<>>
            /\ Deliver(TcpFeed([pc |-> "prefix", buf |-> <<>>, need |-> 1,
                                h |-> NilHeader], Head(inbox).data))
            /\ inbox' = Tail(inbox)
    /\ UNCHANGED <<config, deadlines, api, logger, kind, age, sender, sequence, maxMessageSize,
                   closed, wire, nwrites, wres, sent, tampered, codec, addr,
                   outbox, thr>>

\* WriteFrame on the transport; the datagram transport has a peer address
\* and pc.WriteTo succeeds.
EndWriteFrame ==
    \/ TcpWriteFrameOf(HData, <<7, 9>>, MaxPeerWrites)
    \/ UdpWriteFrameOf(HData, <<7, 9>>, TRUE, MaxPeerWrites)

\* Close on the transport.
EndClose ==
    /\ kind \in {"tcp", "udp"}
    /\ rd.pc = "idle"
    /\ api.closes < MaxCloses
    /\ \E r \in {IF kind = "tcp" THEN TcpCloseOf(closed) ELSE UdpCloseOf(closed)} :
         /\ closed' = r.closed
         /\ api' = [api EXCEPT !.op = "Close", !.err = r.err,
                               !.closes = api.closes + 1]
    /\ UNCHANGED <<config, deadlines, logger, kind, age, sender, sequence, maxMessageSize, wire,
                   nwrites, wres, sent, rd, nreads, rres, recvd, tampered,
                   codec, addr, inbox, outbox, thr>>

\* SetSender(id) on the transport.
EndSetSender ==
    /\ kind \in {"tcp", "udp"}
    /\ rd.pc = "idle"
    /\ \E id \in Senders \ {sender} :
         /\ sender' = id
         /\ api' = [api EXCEPT !.op = "SetSender", !.given = id]
    /\ UNCHANGED <<config, deadlines, logger, kind, age, sequence, maxMessageSize, closed, wire,
                   nwrites, wres, sent, rd, nreads, rres, recvd, tampered,
                   codec, addr, inbox, outbox, thr>>

\* GetSender() on the transport.
EndGetSender ==
    /\ kind \in {"tcp", "udp"}
    /\ rd.pc = "idle"
    /\ api.op # "GetSender"
    /\ api' = [api EXCEPT !.op = "GetSender", !.id = GetSender(sender)]
    /\ UNCHANGED <<config, deadlines, logger, kind, age, sender, sequence, maxMessageSize, closed,
                   wire, nwrites, wres, sent, rd, nreads, rres, recvd,
                   tampered, codec, addr, inbox, outbox, thr>>

EndNext ==
    \/ EndArrive
    \/ PeerReadFrame
    \/ EndTcpReadFrame
    \/ EndWriteFrame
    \/ EndClose
    \/ EndSetSender
    \/ EndGetSender

\* One transport of either variant on which frames arrive and ReadFrame,
\* WriteFrame, Close, SetSender and GetSender are called one at a time.
SpecEndpoint == EndInit /\ [][EndNext]_vars

\* ------------------------------------------------------------------ logger

\* LogType
INFO == 0

WARNING == 1

ERROR == 2

DEBUG == 3

\* LogMode
DEV == 0

RELEASE == 1

VERBOSE == 2

HIDDEN == 3

\* Calls made on one Logger.
MaxLogCalls == 3

\* Lines the file writer's buffer takes before it writes them to the file.
BufferLines == 1

\* A table in which RELEASE lets DEBUG through.
completeLogBehaviorLoose ==
    << << <<TRUE, FALSE>>, <<TRUE, FALSE>>, <<TRUE, FALSE>>, <<TRUE, FALSE>> >>,
       << <<TRUE, TRUE>>, <<TRUE, TRUE>>, <<TRUE, TRUE>>, <<TRUE, TRUE>> >>,
       << <<TRUE, TRUE>>, <<TRUE, TRUE>>, <<TRUE, TRUE>>, <<TRUE, TRUE>> >>,
       << <<TRUE, TRUE>>, <<FALSE, FALSE>>, <<TRUE, TRUE>>, <<FALSE, FALSE>> >> >>

\* completeLogBehavior[mode][logType] = {shouldPrint, shouldSave}
completeLogBehavior ==
    << << <<TRUE, FALSE>>, <<TRUE, FALSE>>, <<TRUE, FALSE>>, <<TRUE, FALSE>> >>,
       << <<TRUE, TRUE>>, <<TRUE, TRUE>>, <<TRUE, TRUE>>, <<FALSE, FALSE>> >>,
       << <<TRUE, TRUE>>, <<TRUE, TRUE>>, <<TRUE, TRUE>>, <<TRUE, TRUE>> >>,
       << <<TRUE, TRUE>>, <<FALSE, FALSE>>, <<TRUE, TRUE>>, <<FALSE, FALSE>> >> >>

\* Logger.shouldLogFast
shouldLogFast(mode, logType) ==
    IF mode >= 4 \/ logType >= 4 THEN [print |-> FALSE, save |-> FALSE]
    ELSE LET behavior == completeLogBehavior[mode + 1][logType + 1]
         IN  [print |-> behavior[1], save |-> behavior[2]]

\* A mutex that is granted to every caller.
TryLockAlways(mu, t) == TRUE

\* l.mu.Lock() returns for thread t once no thread holds the mutex (mu = 0).
TryLock(mu, t) == mu = 0

NoLine == [to |-> "none", lvl |-> 0, color |-> "", by |-> 0]

\* A caller's thread between calls, with its last call: what the fast path
\* decided, what the call saw and did and what it returned.  after: a Close
\* call had returned when this call began.
IdleCaller ==
    [pc |-> "idle", op |-> "none", lvl |-> 0, print |-> FALSE, save |-> FALSE,
     line |-> NoLine, printed |-> FALSE, saved |-> FALSE, sawClosed |-> FALSE,
     after |-> FALSE, ret |-> ""]

\* NewLogger(logDir, mode) that succeeds, used by the threads in callers; the
\* file and its writer exist for every mode but DEV.  disk is whether writes
\* to the file succeed.  console and logFile.data hold what was printed and
\* what reached the file; clash records a call that used the builder, the
\* writer or the colors while another thread was between Lock and Unlock.
NewLogger(mode, disk, callers) ==
    [pc |-> "on", mode |-> mode, closed |-> FALSE, mu |-> 0,
     colors |-> <<"Green", "Yellow", "Red", "Blue">>,
     sb |-> NoLine,
     writer |-> [nil |-> mode = DEV, buf |-> <<>>, err |-> FALSE],
     logFile |-> [nil |-> mode = DEV, open |-> mode # DEV, data |-> <<>>],
     disk |-> disk, console |-> <<>>,
     callers |-> [t \in callers |-> IdleCaller],
     ncalls |-> 0, closeDone |-> FALSE, clash |-> FALSE]

\* bufio.Writer.Flush: an earlier error is returned again, an empty buffer
\* needs no write, and a failed write to the file makes the error stick.
WriterFlush(l) ==
    IF l.writer.err THEN [l |-> l, err |-> TRUE]
    ELSE IF l.writer.buf = <<>> THEN [l |-> l, err |-> FALSE]
    ELSE IF l.disk = "full" \/ ~l.logFile.open
         THEN [l |-> [l EXCEPT !.writer.err = TRUE], err |-> TRUE]
    ELSE [l |-> [l EXCEPT !.logFile.data = l.logFile.data \o l.writer.buf,
                          !.writer.buf = <<>>],
          err |-> FALSE]

\* bufio.Writer.WriteString(line): a full buffer is written to the file first.
WriteString(l, line) ==
    IF l.writer.err THEN [l |-> l, err |-> TRUE]
    ELSE IF Len(l.writer.buf) >= BufferLines
         THEN LET r == WriterFlush(l)
              IN  IF r.err THEN r
                  ELSE [l |-> [r.l EXCEPT !.writer.buf = Append(r.l.writer.buf, line)],
                        err |-> FALSE]
    ELSE [l |-> [l EXCEPT !.writer.buf = Append(l.writer.buf, line)],
          err |-> FALSE]

\* The variables of the transports, which the logger leaves alone.
netVars == <<kind, age, sender, sequence, maxMessageSize, closed, wire, nwrites,
             wres, sent, rd, nreads, rres, recvd, tampered, codec, addr, inbox,
             outbox, thr, api, config, deadlines>>

\* Another thread is between its Lock and its Unlock.
Busy(t) ==
    \E u \in DOMAIN logger.callers \ {t} :
        logger.callers[u].pc \in {"printing", "saving", "unlock"}

\* The levels Log is called with: all four and one outside them; two when
\* several threads call.
LogTypes ==
    IF Cardinality(DOMAIN logger.callers) = 1 THEN INFO..4 ELSE {INFO, DEBUG}

\* Logger.Log up to l.mu.Lock(): the fast path returns when the level is
\* neither printed nor saved.
LoggerLog(t) ==
    /\ logger.pc = "on"
    /\ logger.callers[t].pc = "idle"
    /\ logger.ncalls < MaxLogCalls
    /\ \E logType \in LogTypes :
         LET b == shouldLogFast(logger.mode, logType)
             c == [IdleCaller EXCEPT !.op = "Log", !.lvl = logType,
                                     !.print = b.print, !.save = b.save,
                                     !.after = logger.closeDone]
         IN  logger' = [logger EXCEPT
                 !.ncalls = logger.ncalls + 1,
                 !.callers[t] = IF ~b.print /\ ~b.save THEN c
                                ELSE [c EXCEPT !.pc = "lock"]]
    /\ UNCHANGED netVars

\* The line printToConsole builds, with the level's current color.
ConsoleLine(l, t) ==
    [to |-> "console", lvl |-> l.callers[t].lvl,
     color |-> l.colors[l.callers[t].lvl + 1], by |-> t]

\* The line saveToFile builds.
FileLine(l, t) ==
    [to |-> "file", lvl |-> l.callers[t].lvl, color |-> "", by |-> t]

\* saveToFile up to the write, or the end of Log when nothing is saved:
\* without a writer saveToFile returns before it touches the builder.
BeginSave(l, t) ==
    IF l.callers[t].save /\ ~l.writer.nil
    THEN [l EXCEPT !.sb = FileLine(l, t), !.callers[t].line = FileLine(l, t),
                   !.callers[t].pc = "saving"]
    ELSE [l EXCEPT !.callers[t].pc = "unlock"]

\* Logger.Log from l.mu.Lock() on: a closed logger unlocks and returns,
\* otherwise printToConsole builds its line in l.sb.
LogLock(t) ==
    /\ logger.pc = "on"
    /\ logger.callers[t].pc = "lock"
    /\ TryLock(logger.mu, t)
    /\ LET l == [logger EXCEPT !.mu = t, !.clash = logger.clash \/ Busy(t)]
       IN  logger' =
             IF l.closed
             THEN [l EXCEPT !.callers[t].pc = "unlock",
                            !.callers[t].sawClosed = TRUE]
             ELSE IF l.callers[t].print
             THEN [l EXCEPT !.sb = ConsoleLine(l, t),
                            !.callers[t].line = ConsoleLine(l, t),
                            !.callers[t].pc = "printing"]
             ELSE BeginSave(l, t)
    /\ UNCHANGED netVars

\* fmt.Print(l.sb.String()), then saveToFile builds its line.
LogPrint(t) ==
    /\ logger.pc = "on"
    /\ logger.callers[t].pc = "printing"
    /\ LET l == [logger EXCEPT
                   !.console = Append(logger.console,
                                      [line |-> logger.sb,
                                       want |-> logger.callers[t].line]),
                   !.callers[t].printed = TRUE,
                   !.clash = logger.clash \/ Busy(t)]
       IN  logger' = BeginSave(l, t)
    /\ UNCHANGED netVars

\* The report of a failed write, printed with fmt.Printf.
FailedToWrite(t) == [to |-> "report", lvl |-> ERROR, color |-> "Red", by |-> t]

\* l.writer.WriteString(l.sb.String()); a failed write is reported on the
\* console.
LogSave(t) ==
    /\ logger.pc = "on"
    /\ logger.callers[t].pc = "saving"
    /\ LET r == WriteString(logger, [line |-> logger.sb,
                                     want |-> logger.callers[t].line])
           l == IF r.err
                THEN [r.l EXCEPT !.console =
                         Append(r.l.console,
                                [line |-> FailedToWrite(t),
                                 want |-> FailedToWrite(t)])]
                ELSE r.l
       IN  logger' = [l EXCEPT !.callers[t].saved = TRUE,
                               !.callers[t].pc = "unlock",
                               !.clash = logger.clash \/ Busy(t)]
    /\ UNCHANGED netVars

\* l.mu.Unlock() at the end of Log.
LogUnlock(t) ==
    /\ logger.pc = "on"
    /\ logger.callers[t].pc = "unlock"
    /\ logger' = [logger EXCEPT !.mu = 0, !.callers[t].pc = "idle"]
    /\ UNCHANGED netVars

\* Logger.Flush, from Lock to Unlock.
LoggerFlush(t) ==
    /\ logger.pc = "on"
    /\ logger.callers[t].pc = "idle"
    /\ logger.ncalls < MaxLogCalls
    /\ TryLock(logger.mu, t)
    /\ LET r == IF logger.writer.nil THEN [l |-> logger, err |-> FALSE]
                ELSE WriterFlush(logger)
       IN  logger' = [r.l EXCEPT
               !.ncalls = logger.ncalls + 1,
               !.clash = logger.clash \/ Busy(t),
               !.callers[t] = [IdleCaller EXCEPT
                                 !.op = "Flush",
                                 !.after = logger.closeDone,
                                 !.ret = IF r.err THEN "flush" ELSE ""]]
    /\ UNCHANGED netVars

\* Logger.Close, from Lock to Unlock: closed is set, then a failed flush
\* returns before the file is closed.
LoggerClose(t) ==
    /\ logger.pc = "on"
    /\ logger.callers[t].pc = "idle"
    /\ logger.ncalls < MaxLogCalls
    /\ TryLock(logger.mu, t)
    /\ LET c == [IdleCaller EXCEPT !.op = "Close", !.after = logger.closeDone,
                                   !.sawClosed = logger.closed]
           l == [logger EXCEPT !.ncalls = logger.ncalls + 1,
                               !.clash = logger.clash \/ Busy(t),
                               !.closeDone = TRUE]
           r == IF l.writer.nil THEN [l |-> l, err |-> FALSE] ELSE WriterFlush(l)
       IN  logger' =
             IF l.closed THEN [l EXCEPT !.callers[t] = c]
             ELSE IF r.err
             THEN [r.l EXCEPT !.closed = TRUE,
                              !.callers[t] = [c EXCEPT !.ret = "flush"]]
             ELSE [r.l EXCEPT !.closed = TRUE,
                              !.logFile.open = FALSE,
                              !.callers[t] = c]
    /\ UNCHANGED netVars

\* The colors SetColor accepts.
ValidColors == {"Red", "Green", "Yellow", "Blue", "Magenta", "Cyan"}

\* Logger.SetColor: a level outside the four returns before the lock.
LoggerSetColor(t) ==
    /\ logger.pc = "on"
    /\ logger.callers[t].pc = "idle"
    /\ logger.ncalls < MaxLogCalls
    /\ \E a \in {<<INFO, "Magenta">>, <<INFO, "Orange">>, <<4, "Magenta">>} :
         LET c == [IdleCaller EXCEPT !.op = "SetColor", !.lvl = a[1],
                                     !.after = logger.closeDone]
             l == [logger EXCEPT !.ncalls = logger.ncalls + 1,
                                 !.callers[t] = c]
         IN  IF a[1] >= 4 THEN logger' = l
             ELSE /\ TryLock(logger.mu, t)
                  /\ logger' =
                       [l EXCEPT !.clash = logger.clash \/ Busy(t),
                                 !.colors[a[1] + 1] =
                                     IF a[2] \in ValidColors THEN a[2]
                                     ELSE logger.colors[a[1] + 1]]
    /\ UNCHANGED netVars

LoggerInit ==
    /\ TransportOff
    /\ codec = CodecOff
    /\ config = NoConfig
    /\ \E mode \in DEV..4, disk \in {"ok", "full"} :
         logger = NewLogger(mode, disk, {1})

LoggerConcInit ==
    /\ TransportOff
    /\ codec = CodecOff
    /\ config = NoConfig
    /\ \E mode \in {DEV, VERBOSE}, disk \in {"ok", "full"} :
         logger = NewLogger(mode, disk, {1, 2})

LoggerNext ==
    \E t \in DOMAIN logger.callers :
        \/ LoggerLog(t)
        \/ LogLock(t)
        \/ LogPrint(t)
        \/ LogSave(t)
        \/ LogUnlock(t)
        \/ LoggerFlush(t)
        \/ LoggerClose(t)
        \/ LoggerSetColor(t)

\* One Logger called from one thread, in every mode and at every level.
SpecLogger == LoggerInit /\ [][LoggerNext]_vars

\* One Logger called from two threads at once.
SpecLoggerConc == LoggerConcInit /\ [][LoggerNext]_vars

\* ------------------------------------------------------------------ config

\* DefaultConfig(): the fields Validate reads.
DefaultConfig ==
    [src |-> "default", Port |-> 8080, MaxClients |-> 10000,
     BufferSize |-> 8192, SendChanSize |-> 256,
     MaxMessageSize |-> 4 * 1024 * 1024, ret |-> "none"]

\* The configurations a caller writes: Port is a uint16, MaxClients a uint32,
\* the sizes are ints.
Configs ==
    { [src |-> "literal", Port |-> port, MaxClients |-> clients,
       BufferSize |-> buffer, SendChanSize |-> chan,
       MaxMessageSize |-> size, ret |-> "none"] :
         port \in {0, 8080}, clients \in {0, 1, 10000},
         buffer \in {-1, 0, 8192}, chan \in {-1, 0, 256},
         size \in {-1, 0, 4 * 1024 * 1024} }

\* A Validate that lets MaxClients == 0 through.
ValidateAnyClients(c) ==
    IF c.Port = 0 THEN "invalid port"
    ELSE IF c.BufferSize <= 0 THEN "bufferSize must be greater than 0"
    ELSE IF c.SendChanSize <= 0 THEN "sendChanSize must be greater than 0"
    ELSE IF c.MaxMessageSize <= 0 THEN "maxMessageSize must be greater than 0"
    ELSE ""

\* SocketConfig.Validate: the error it returns, "" for nil.
Validate(c) ==
    IF c.Port = 0 THEN "invalid port"
    ELSE IF c.MaxClients <= 0 THEN "maxClients must be greater than 0"
    ELSE IF c.BufferSize <= 0 THEN "bufferSize must be greater than 0"
    ELSE IF c.SendChanSize <= 0 THEN "sendChanSize must be greater than 0"
    ELSE IF c.MaxMessageSize <= 0 THEN "maxMessageSize must be greater than 0"
    ELSE ""

ConfigInit ==
    /\ TransportOff
    /\ codec = CodecOff
    /\ logger = NoLogger
    /\ config \in Configs

\* cfg := DefaultConfig()
ConfigDefault ==
    /\ config.src = "literal"
    /\ config' = DefaultConfig
    /\ UNCHANGED <<deadlines, api, logger, kind, age, sender, sequence,
                   maxMessageSize, closed, wire, nwrites, wres, sent, rd,
                   nreads, rres, recvd, tampered, codec, addr, inbox, outbox,
                   thr>>

\* cfg.Validate()
ConfigValidate ==
    /\ config.src # "none"
    /\ config.ret = "none"
    /\ config' = [config EXCEPT !.ret = Validate(config)]
    /\ UNCHANGED <<deadlines, api, logger, kind, age, sender, sequence,
                   maxMessageSize, closed, wire, nwrites, wres, sent, rd,
                   nreads, rres, recvd, tampered, codec, addr, inbox, outbox,
                   thr>>

ConfigNext ==
    \/ ConfigDefault
    \/ ConfigValidate

\* A SocketConfig that is written or taken from DefaultConfig and validated.
SpecConfig == ConfigInit /\ [][ConfigNext]_vars

\* ------------------------------------------------------------------ deadlines

\* The clock's last reading.
MaxClock == 3

\* The times a deadline is set to; 0 is the zero time, which sets none.
Times == { 0, 2 }

\* net.PacketConn.SetDeadline: the read and the write deadline.
PcSetDeadline(d, tm) == [d EXCEPT !.read = tm, !.write = tm]

\* net.PacketConn.SetWriteDeadline
PcSetWriteDeadline(d, tm) == [d EXCEPT !.write = tm]

\* udpConnWrapper.SetReadDeadline: return u.pc.SetDeadline(tm)
UdpSetReadDeadline(d, tm) == PcSetDeadline(d, tm)

\* udpConnWrapper.SetWriteDeadline: return u.pc.SetWriteDeadline(tm)
UdpSetWriteDeadline(d, tm) == PcSetWriteDeadline(d, tm)

\* A deadline that is set and has passed.
Expired(tm) == tm # 0 /\ deadlines.now >= tm

DeadlineInit == EndInit /\ kind = "udp"

\* Time passes.
Tick ==
    /\ kind = "udp"
    /\ deadlines.now < MaxClock
    /\ deadlines' = [deadlines EXCEPT !.now = deadlines.now + 1]
    /\ UNCHANGED <<config, api, logger, kind, age, sender, sequence,
                   maxMessageSize, closed, wire, nwrites, wres, sent, rd,
                   nreads, rres, recvd, tampered, codec, addr, inbox, outbox,
                   thr>>

\* SetReadDeadline(tm) on the datagram transport.
SetReadDeadline ==
    /\ kind = "udp"
    /\ \E tm \in Times :
         deadlines' = [UdpSetReadDeadline(deadlines, tm) EXCEPT
                          !.op = "SetReadDeadline"]
    /\ UNCHANGED <<config, api, logger, kind, age, sender, sequence,
                   maxMessageSize, closed, wire, nwrites, wres, sent, rd,
                   nreads, rres, recvd, tampered, codec, addr, inbox, outbox,
                   thr>>

\* SetWriteDeadline(tm) on the datagram transport.
SetWriteDeadline ==
    /\ kind = "udp"
    /\ \E tm \in Times :
         deadlines' = [UdpSetWriteDeadline(deadlines, tm) EXCEPT
                          !.op = "SetWriteDeadline"]
    /\ UNCHANGED <<config, api, logger, kind, age, sender, sequence,
                   maxMessageSize, closed, wire, nwrites, wres, sent, rd,
                   nreads, rres, recvd, tampered, codec, addr, inbox, outbox,
                   thr>>

\* udpConnWrapper.ReadFrame: pc.ReadFrom fails once the read deadline has
\* passed and ReadFrame returns before it records anything.
DeadlineReadFrame ==
    \/ /\ kind = "udp"
       /\ rd.pc = "idle"
       /\ nreads < MaxPackets
       /\ Expired(deadlines.read)
       /\ Deliver(Returned(ReadErr("timeout")))
       /\ UNCHANGED <<config, deadlines, api, logger, kind, age, sender,
                      sequence, maxMessageSize, closed, wire, nwrites, wres,
                      sent, tampered, codec, addr, inbox, outbox, thr>>
    \/ /\ ~Expired(deadlines.read)
       /\ PeerReadFrame

\* udpConnWrapper.WriteFrame: pc.WriteTo fails once the write deadline has
\* passed.
DeadlineWriteFrame ==
    UdpWriteFrameOf(HData, <<7, 9>>, ~Expired(deadlines.write), MaxPeerWrites)

DeadlineNext ==
    \/ Tick
    \/ SetReadDeadline
    \/ SetWriteDeadline
    \/ EndArrive
    \/ DeadlineReadFrame
    \/ DeadlineWriteFrame

\* One datagram transport whose deadlines are set while frames are read and
\* written and time passes.
SpecDeadline == DeadlineInit /\ [][DeadlineNext]_vars

\* ------------------------------------------------------------------ alignment

\* Frames written to one stream, one behind the other.
MaxAlignFrames == 2

\* The payload of the k-th of them.
AlignPayload(k) == <<6 + k, 9>>

AlignWriteFrame ==
    TcpWriteFrameOf(HDataStamped, AlignPayload(nwrites + 1), MaxAlignFrames)

AlignInit == TransportInit /\ kind = "tcp" /\ codec = CodecOff

AlignNext ==
    \/ AlignWriteFrame
    \/ Corrupt
    \/ TcpClose
    \/ TcpReadStart
    \/ TcpReadAll
    \/ TcpReadEOF

\* A stream transport that carries several frames, a byte of the first of
\* which may be changed, to a reader that goes on reading after an error.
SpecAlign == AlignInit /\ [][AlignNext]_vars

\* ------------------------------------------------------------------ claims

\* The fields a round trip must reproduce: all the fixed ones, Receiver for a
\* broadcast message and Sequence for the datagram protocol.
SameFields(a, b) ==
    /\ a.ID = b.ID
    /\ a.Sender = b.Sender
    /\ a.Timestamp = b.Timestamp
    /\ a.Length = b.Length
    /\ a.Flags = b.Flags
    /\ a.MessageType = b.MessageType
    /\ a.Router = b.Router
    /\ a.Protocol = b.Protocol
    /\ (a.MessageType = MessageTypeBroadcast => a.Receiver = b.Receiver)
    /\ (a.Protocol = ProtocolUDP => a.Sequence = b.Sequence)

\* C1: for every valid header, HeaderDecode(HeaderEncode(h)) succeeds and
\* reproduces every field of h (Receiver for a broadcast, Sequence for the
\* datagram protocol).
C1_CodecRoundTrip ==
    codec.pc = "decoded" =>
        /\ codec.dec.kind = "ok"
        /\ SameFields(codec.enc.h, codec.dec.h)

\* The round trip does hold for every header that is no broadcast without a
\* receiver.
C1_RoundTripWithReceiver ==
    codec.pc = "decoded"
      /\ ~(codec.h.MessageType = MessageTypeBroadcast /\ codec.h.Receiver = UuidNil)
      => /\ codec.dec.kind = "ok"
         /\ SameFields(codec.enc.h, codec.dec.h)

\* C2: a frame written with WriteFrame and read with ReadFrame on the peer of
\* the same kind (the datagram maximum large enough) yields the header as
\* WriteFrame finalized it and the payload as sent.
C2_FrameRoundTrip ==
    (kind = "tcp" \/ (kind = "udp" /\ maxMessageSize = 96)) =>
        /\ rres.kind \in {"none", "ok"} \/ (kind = "tcp" /\ rres.err = "read")
        /\ \A i \in 1..Len(recvd) :
             /\ SameFields(sent[i].h, recvd[i].h)
             /\ recvd[i].payload = sent[i].payload

\* A transmitted pair whose header is a broadcast without a receiver.
NoReceiverSent ==
    \E i \in 1..Len(sent) :
        sent[i].h.MessageType = MessageTypeBroadcast /\ sent[i].h.Receiver = UuidNil

C2_RoundTripWithReceiver ==
    ~NoReceiverSent => C2_FrameRoundTrip

\* C3: on a stream transport with one writer and one reader, however the
\* byte stream is split into partial reads, successive ReadFrame calls return
\* exactly the pairs written, in the order written, none lost, duplicated or
\* merged.
C3_StreamOrder ==
    kind = "tcp" =>
        /\ Len(recvd) <= Len(sent)
        /\ \A i \in 1..Len(recvd) :
             SameFields(sent[i].h, recvd[i].h) /\ recvd[i].payload = sent[i].payload
        /\ rres.kind \in {"err", "panic"} => (rres.err = "read" /\ closed)
        /\ (rd.pc = "idle" /\ wire = <<>> /\ rres.kind = "ok")
             => Len(recvd) = Len(sent)

\* The order of the stream does hold when no broadcast without a receiver is
\* written.
C3_OrderWithReceiver ==
    ~NoReceiverSent => C3_StreamOrder

\* C4: after WriteFrame on either transport header.Length is len(payload),
\* whatever the caller supplied, and the Length field on the wire is the
\* number of payload bytes placed in the frame.
C4_LengthDerived ==
    (wres.called /\ wres.hin # NilHeader) =>
        /\ wres.h.Length = U64FromInt(Len(wres.payload))
        /\ wres.msg # <<>> =>
             /\ Uint64(Slice(wres.msg, 41, 49))
                  = U64FromInt(Len(wres.msg) - 1 - wres.msg[1] - 4)
             /\ Slice(wres.msg, 1 + wres.msg[1], Len(wres.msg) - 4) = wres.payload

\* A frame went out whose caller had supplied another Length.
C4_Witness ==
    /\ wres.called
    /\ wres.err = ""
    /\ wres.hin.Length = U64FromInt(100)
    /\ wres.payload = <<7, 9>>
    /\ wres.h.Length = U64FromInt(2)

U32Less(a, b) == a[1] < b[1] \/ (a[1] = b[1] /\ a[2] < b[2])

\* The Sequence values of the frames sent are strictly increasing.
SequenceIncreasing ==
    \A i, j \in 1..Len(sent) :
        i < j => U32Less(sent[i].h.Sequence, sent[j].h.Sequence)

\* On a new transport whose calls all succeeded the k-th frame carries k-1.
SequenceFromZero ==
    (age = "new" /\ Len(sent) = nwrites) =>
        \A k \in 1..Len(sent) : sent[k].h.Sequence = <<0, k - 1>>

C6_CounterCountsSuccesses ==
    (kind = "udp" /\ age = "new") =>
        /\ sequence = <<0, Len(sent)>>
        /\ \A k \in 1..Len(sent) : sent[k].h.Sequence = <<0, k - 1>>

C8_StreamKeepsFields ==
    (kind = "tcp" /\ wres.called /\ wres.hin # NilHeader) =>
        /\ wres.h = [wres.hin EXCEPT !.Length = wres.h.Length,
                                     !.Timestamp = wres.h.Timestamp]
        /\ wres.hin.Timestamp # U64Zero => wres.h.Timestamp = wres.hin.Timestamp
        /\ wres.msg # <<>> => Slice(wres.msg, 17, 33) = wres.hin.Sender

\* A stream frame went out with the caller's Sender, not the transport's,
\* and the caller's datagram protocol and sequence.
C8_Witness ==
    /\ kind = "tcp"
    /\ wres.called
    /\ wres.err = ""
    /\ wres.hin.Sender # wres.sender
    /\ wres.hin.Timestamp = U64Zero
    /\ wres.h.Timestamp = Now
    /\ wres.h.Protocol = ProtocolUDP
    /\ wres.h.Sequence = <<0, 42>>

\* The byte changed in flight is one of the first frame's payload bytes.
PayloadTampered ==
    /\ tampered.done
    /\ tampered.pos > 1 + HeaderSize(sent[1].h)
    /\ tampered.pos <= 1 + HeaderSize(sent[1].h) + Len(sent[1].payload)

\* C9: if a payload byte of a correctly built frame is changed before it is
\* read, ReadFrame fails with a checksum mismatch and returns neither header
\* nor payload.
C9_PayloadFlipDetected ==
    (PayloadTampered /\ nreads = 1) =>
        /\ rres.kind = "err"
        /\ rres.err = "checksum"
        /\ recvd = <<>>

\* The mismatch is reported when the frame's header is no broadcast without a
\* receiver.
C9_FlipDetectedWithReceiver ==
    ~NoReceiverSent => C9_PayloadFlipDetected

\* C10: for any bytes delivered, ReadFrame returns a header and a payload and
\* no error, or an error and neither; it never aborts instead of returning.
C10_AllOrNothing ==
    /\ rres.kind # "panic"
    /\ rres.kind = "err" => (rres.h = NilHeader /\ rres.payload = <<>>)
    /\ rres.kind = "ok" =>
         (rres.h # NilHeader /\ rres.h.Length = U64FromInt(Len(rres.payload)))

\* ReadFrame aborts also on frames whose header is no broadcast without a
\* receiver, when a byte of the Length field is changed.
C10_NoAbortWithReceiver ==
    ~NoReceiverSent => rres.kind # "panic"

\* The header the input's control bytes announce takes this many bytes.
Announced(in) ==
    52 + (IF in.arr[50] = MessageTypeBroadcast THEN 16 ELSE 0)
       + (IF in.arr[52] = ProtocolUDP THEN 4 ELSE 0)

\* C11: HeaderDecode fails with a decode error and returns no header for
\* every input shorter than 52 bytes or longer than 72 bytes.
C11_BoundaryRejected ==
    (codec.pc = "decodedinput" /\ (codec.n < 52 \/ codec.n > 72)) =>
        codec.dec = [kind |-> "err", h |-> NilHeader]

\* Inputs of 51 and of 73 bytes were refused.
C11_Witness ==
    /\ codec.pc = "decodedinput"
    /\ codec.n \in {51, 73}
    /\ Len(codec.arr) = codec.n
    /\ codec.dec.kind = "err"

\* C12: for an input of 52 to 72 bytes HeaderDecode returns a header only if
\* the bytes consumed (52, plus 16 for a broadcast, plus 4 for the datagram
\* protocol) equal the input length, and fails with a decode error on any
\* mismatch, never reading past the end of the input.
C12_ConsumedMatchesLength ==
    (codec.pc = "decodedinput" /\ codec.n >= 52 /\ codec.n <= 72) =>
        /\ codec.dec.kind \in {"ok", "err"}
        /\ codec.dec.kind = "ok" <=> Announced(codec) = codec.n

\* C12 without the inputs whose array ends before the blocks announced: on
\* those the decoder slices beyond the capacity.
C12_MismatchWithinCapacity ==
    (codec.pc = "decodedinput" /\ codec.n >= 52 /\ codec.n <= 72
        /\ Announced(codec) <= Len(codec.arr)) =>
        /\ codec.dec.kind \in {"ok", "err"}
        /\ codec.dec.kind = "ok" <=> Announced(codec) = codec.n

\* C15: encoder and decoder apply one predicate for the presence of the
\* Receiver block: a broadcast header with the zero Receiver, encoded by
\* HeaderEncode, is decoded by HeaderDecode without error into a header with
\* the same fields.
C15_SymmetricReceiverPredicate ==
    (codec.pc = "decoded"
        /\ codec.h.MessageType = MessageTypeBroadcast
        /\ codec.h.Receiver = UuidNil) =>
        /\ codec.dec.kind = "ok"
        /\ SameFields(codec.enc.h, codec.dec.h)
        /\ codec.dec.h.Receiver = UuidNil

\* C14: datagram WriteFrame fails with a message-too-large error exactly when
\* 1 + the encoded header length + len(payload) + 4 exceeds the maximum
\* message size, and then sends nothing; every packet it sends is at most the
\* maximum in size.
C14_TooLargeExactly ==
    [][ (kind = "udp" /\ nwrites' = nwrites + 1 /\ wres'.hin # NilHeader) =>
          LET messageSize == 1 + HeaderSize(wres'.h) + Len(wres'.payload) + 4
          IN  /\ wres'.err = "toolarge" <=> messageSize > maxMessageSize
              /\ wres'.err = "toolarge" => wire' = wire
              /\ wire' # wire =>
                   /\ wire' = Append(wire, wres'.msg)
                   /\ Len(wres'.msg) = messageSize
                   /\ Len(wres'.msg) <= maxMessageSize ]_vars

\* With a maximum of 62 a frame of 61 bytes went out and one of 63 bytes was
\* refused.
C14_Witness ==
    /\ kind = "udp"
    /\ maxMessageSize = 62
    /\ nwrites = 2
    /\ Len(sent) = 1
    /\ Len(sent[1].payload) = 0
    /\ wres.err = "toolarge"
    /\ Len(wres.payload) = 2

\* C16: no frame written by a stream transport carries the Sequence block,
\* whatever header the caller passes: the frame is the prefix, the 52 fixed
\* bytes, the Receiver block of a broadcast, the payload and the checksum.
C16_NoSequenceOnStream ==
    (kind = "tcp" /\ wres.called /\ wres.err = "") =>
        Len(wres.msg) = 1 + 52 + (IF IsBroadcast(wres.h) THEN 16 ELSE 0)
                          + Len(wres.payload) + 4

\* C16 for the headers whose Protocol field is Stream.
C16_NoSequenceForStreamHeaders ==
    (kind = "tcp" /\ wres.called /\ wres.err = ""
        /\ wres.hin.Protocol = ProtocolTCP) =>
        Len(wres.msg) = 1 + 52 + (IF IsBroadcast(wres.h) THEN 16 ELSE 0)
                          + Len(wres.payload) + 4

\* The received byte count: pc.ReadFrom fills at most the buffer.
Received(pkt) ==
    IF Len(pkt) < maxMessageSize THEN Len(pkt) ELSE maxMessageSize

\* The Length field of the header a packet carries.
LengthField(pkt) == Uint64(SubSeq(pkt, 42, 49))

\* n < 1, n < 1 + headerLength, or the header decodes and
\* n < 1 + headerLength + header.Length + 4, compared without wrapping.
TruncatedPacket(pkt) ==
    LET n == Received(pkt)
    IN  \/ n < 1
        \/ n < 1 + pkt[1]
        \/ /\ HeaderDecode(SubSeq(pkt, 2, n), pkt[1]).kind = "ok"
           /\ U64Less(U64FromInt(n - 1 - pkt[1]),
                      [LengthField(pkt) EXCEPT ![4] = @ + 4])

\* ReadFrame takes the first datagram waiting at the socket and returns.
ReceivesPacket ==
    /\ kind = "udp"
    /\ inbox # <<>>
    /\ inbox' = Tail(inbox)
    /\ nreads' = nreads + 1

\* C13: datagram ReadFrame fails with a truncated-packet error and returns no
\* frame whenever the received byte count n is less than 1, less than
\* 1 + headerLength, or less than 1 + headerLength + header.Length + 4.
C13_TruncatedRejected ==
    [][ (ReceivesPacket /\ TruncatedPacket(Head(inbox).data)) =>
            rres' = ReadErr("truncated") ]_vars

\* C13 for the packets whose Length field is below 2^48: the sum the code
\* compares n with does not wrap for them.
C13_TruncatedRejectedBelowWrap ==
    [][ (ReceivesPacket /\ TruncatedPacket(Head(inbox).data)
            /\ (Len(Head(inbox).data) < 49
                  \/ LengthField(Head(inbox).data)[1] = 0)) =>
            rres' = ReadErr("truncated") ]_vars

\* A packet as WriteFrame lays it out: the prefix, a header of the length the
\* control bytes announce, the payload of Length bytes and its checksum.
WellFormed(pkt) ==
    /\ Len(pkt) >= 1 + 52 + 4
    /\ LET hl   == pkt[1]
           plen == Len(pkt) - 1 - hl - 4
       IN  /\ hl = 52 + (IF pkt[51] = MessageTypeBroadcast THEN 16 ELSE 0)
                      + (IF pkt[53] = ProtocolUDP THEN 4 ELSE 0)
           /\ plen >= 0
           /\ LengthField(pkt) = U64FromInt(plen)
           /\ SubSeq(pkt, Len(pkt) - 3, Len(pkt))
                = PutUint32(Checksum(SubSeq(pkt, 2 + hl, Len(pkt) - 4)))

\* C19: datagram failures are per-packet: a ReadFrame that fails on a bad
\* packet (truncated, undecodable header, checksum mismatch) leaves the
\* transport usable, and the next ReadFrame that receives a well-formed
\* packet succeeds and returns that packet's header and payload.
C19_FailuresPerPacket ==
    /\ []((kind = "udp" /\ rres.kind = "err") => rd = IdleReader)
    /\ [][ (ReceivesPacket
              /\ rres.kind = "err"
              /\ rres.err \in {"truncated", "decode", "checksum"}
              /\ WellFormed(Head(inbox).data)
              /\ Len(Head(inbox).data) <= maxMessageSize) =>
             LET pkt == Head(inbox).data
             IN  /\ rres'.kind = "ok"
                 /\ HeaderBytes(rres'.h) = SubSeq(pkt, 2, 1 + pkt[1])
                 /\ rres'.payload = SubSeq(pkt, 2 + pkt[1], Len(pkt) - 4) ]_vars

\* The first ReadFrame failed on its packet and the second returned a frame.
C19_Witness ==
    /\ kind = "udp"
    /\ inbox = <<>>
    /\ nreads = 2
    /\ Len(recvd) = 1
    /\ rres.kind = "ok"
    /\ rres.payload = <<7, 9>>

\* C20: after a datagram ReadFrame receives a frame the transport's remote
\* address is the source address of that packet, whatever it was before;
\* nothing else changes it, and WriteFrame sends to it.
C20_PeerRecorded ==
    [][ /\ ReceivesPacket => addr' = Head(inbox).src
        /\ addr' # addr => ReceivesPacket
        /\ outbox' # outbox =>
             /\ Len(outbox') = Len(outbox) + 1
             /\ outbox'[Len(outbox')].dst = addr
             /\ outbox'[Len(outbox')].msg = wres'.msg \/ wres'.err = "send"
      ]_vars

\* A frame went to host 1; then a packet of host 2 was read and the next
\* frame went to host 2.
C20_Witness ==
    /\ kind = "udp"
    /\ thr = NoThreads
    /\ nreads = 1
    /\ addr = Addr(2)
    /\ Len(outbox) = 2
    /\ outbox[1].dst = Addr(1)
    /\ outbox[2].dst = Addr(2)
    /\ wres.err = ""

\* C17: ReadFrame and WriteFrame share no mutable state: with one reader
\* thread and one writer thread the destination of a write does not depend
\* on how it interleaves with the read; it is the remote address the
\* transport had when WriteFrame was called.
C17_NoSharedState ==
    (thr # NoThreads /\ thr.w2.pc = "idle" /\ thr.w1.pc = "done"
        /\ thr.w1.err # "toolarge") =>
        thr.w1.dst = thr.w1.at

\* The content of the write does not depend on the read.
C17_ContentIndependent ==
    (thr # NoThreads /\ thr.w2.pc = "idle" /\ thr.w1.pc = "done") =>
        thr.w1.msg = UdpBuild(thr.w1.header, thr.w1.payload, Now, Uuid(1),
                              U32Zero, maxMessageSize).msg

\* Both concurrent WriteFrame calls have returned.
BothDone == thr # NoThreads /\ thr.w1.pc = "done" /\ thr.w2.pc = "done"

\* C18: two WriteFrame calls running concurrently on one datagram transport
\* race on the sequence counter.  Whatever the interleaving, once both have
\* returned the frames carry 0 or 1 and the counter has advanced by one or by
\* two; an update is lost only when both frames carry the same Sequence (the
\* state the witness reaches).
C18_SequenceRace ==
    BothDone =>
        /\ thr.w1.h.Sequence \in {<<0, 0>>, <<0, 1>>}
        /\ thr.w2.h.Sequence \in {<<0, 0>>, <<0, 1>>}
        /\ sequence \in {<<0, 1>>, <<0, 2>>}
        /\ sequence = <<0, 1>> => thr.w1.h.Sequence = thr.w2.h.Sequence
        /\ thr.w1.h.Sequence = thr.w2.h.Sequence => thr.w1.h.Sequence = <<0, 0>>

\* Both frames were sent with Sequence 0 and the counter advanced by one.
C18_Witness ==
    /\ BothDone
    /\ thr.w1.err = ""
    /\ thr.w2.err = ""
    /\ thr.w1.h.Sequence = thr.w2.h.Sequence
    /\ Len(outbox) = 2
    /\ sequence = <<0, 1>>

\* C26: HeaderEncode and WriteFrame (both variants) fail with an error when
\* the header is nil; nothing is transmitted and the datagram transport's
\* sequence counter is not advanced.
C26_NilHeaderRejected ==
    /\ [](HeaderEncode(NilHeader, Now).err /\ HeaderEncode(NilHeader, Now).bytes = <<>>)
    /\ [][ (nwrites' = nwrites + 1 /\ wres'.hin = NilHeader) =>
             /\ wres'.err = "nil"
             /\ wres'.msg = <<>>
             /\ wire' = wire
             /\ sent' = sent
             /\ sequence' = sequence ]_vars

\* After a frame was sent, a datagram WriteFrame with a nil header failed and
\* the counter is still 1.
C26_Witness ==
    /\ kind = "udp"
    /\ nwrites = 2
    /\ Len(sent) = 1
    /\ wres.called
    /\ wres.hin = NilHeader
    /\ wres.err = "nil"
    /\ sequence = <<0, 1>>

\* The 4-byte trailer of a frame.
Trailer(msg) == SubSeq(msg, Len(msg) - 3, Len(msg))

\* The headers a frame may be written with.
TrailerHeaders == { HData, HBroadcast, HDataReceiver, HDataStamped }

ScenarioReturned(len) ==
    /\ rres.kind \in {"none", "ok"} \/ rres.err = "read"
    /\ rres.kind = "ok" =>
         /\ rres.h.Router = 42
         /\ rres.h.MessageType = MessageTypeData
         /\ rres.payload = Hello
         /\ rres.h.Length = U64FromInt(len)

\* C25 as stated: the frame written with MessageType Data, Protocol Stream,
\* Router 42 and the payload "hello from tcp client" is returned by ReadFrame
\* on the peer with the same Router, MessageType and payload, and Length 22.
C25_ScenarioLength22 == ScenarioReturned(22)

\* C25 as amended: the payload has 21 bytes and Length is 21.
C25_ScenarioLength21 == ScenarioReturned(Len(Hello)) /\ Len(Hello) = 21

\* The server's ReadFrame returned the client's frame.
C25_Witness ==
    /\ kind = "tcp"
    /\ sent # <<>>
    /\ sent[1].payload = Hello
    /\ rres.kind = "ok"
    /\ rres.h.ID = Uuid(5)

\* The timestamp a header carries once HeaderEncode has seen it at the
\* reading now.
StampedAt(h, now) == IF h.Timestamp = U64Zero THEN now ELSE h.Timestamp

\* C23: HeaderEncode, and WriteFrame through it, sets Timestamp to the
\* current time only when it is zero.  A header whose Timestamp is non-zero,
\* from the caller or from an earlier encode, keeps that value through every
\* later encode and WriteFrame, and the bytes carry it.
C23_TimestampSetOnce ==
    /\ codec.pc \in {"encoded", "decoded"} =>
          /\ codec.enc.h.Timestamp = StampedAt(codec.h, Now)
          /\ SubSeq(codec.enc.bytes, 33, 40) = PutUint64(StampedAt(codec.h, Now))
          /\ [codec.enc.h EXCEPT !.Timestamp = codec.h.Timestamp] = codec.h
    /\ \A h \in CodecHeaders \ {NilHeader} :
          /\ TcpBuild(h, <<7, 9>>, Later, Uuid(1)).h.Timestamp = StampedAt(h, Later)
          /\ UdpBuild(h, <<7, 9>>, Later, Uuid(1), U32Zero, 96).h.Timestamp
                = StampedAt(h, Later)
    /\ (wres.called /\ wres.err = "") =>
          wres.h.Timestamp = StampedAt(wres.hin, Now)

\* A header stamped by its first encode was encoded again at a later time
\* and still carries the first reading.
C23_Witness ==
    /\ codec.pc = "encoded"
    /\ codec.times = MaxEncodes
    /\ codec.h.Timestamp = U64Zero
    /\ codec.enc.h.Timestamp = Now
    /\ Now # Later

\* The step is a Close call on the transport.
CloseCalled == api'.closes = api.closes + 1

\* C21: Close on the datagram transport is an idempotent no-op.  Every Close
\* call returns no error, changes neither the sender, the sequence counter
\* nor the peer address, and leaves the packet channel open.
C21_DatagramCloseNoOp ==
    /\ [](kind = "udp" => ~closed)
    /\ [][(kind = "udp" /\ CloseCalled) =>
             /\ api'.err = ""
             /\ sender' = sender
             /\ sequence' = sequence
             /\ addr' = addr
             /\ maxMessageSize' = maxMessageSize
             /\ closed' = closed
             /\ inbox' = inbox
             /\ wire' = wire]_vars

\* Close was called twice on a datagram transport that has a sender it was
\* given, a counter that moved and a peer address it recorded.
C21_Witness ==
    /\ kind = "udp"
    /\ api.op = "Close"
    /\ api.closes = MaxCloses
    /\ api.err = ""
    /\ sender = Uuid(3)
    /\ sequence # U32Zero
    /\ addr = Addr(2)

\* C22: after Close was called on a transport, every ReadFrame and WriteFrame
\* on it fails with a channel-closed error, and neither delivers nor
\* transmits a frame.
C22_FailsAfterClose ==
    [][api.closes > 0 =>
         /\ nreads' = nreads + 1 =>
              /\ rres'.kind = "err"
              /\ rres'.err = "closed"
              /\ recvd' = recvd
         /\ nwrites' = nwrites + 1 =>
              /\ wres'.err = "closed"
              /\ wire' = wire
              /\ sent' = sent]_vars

\* C22 on the stream transport alone, where it holds.
C22_StreamFailsAfterClose ==
    [][(kind = "tcp" /\ api.closes > 0) =>
         /\ nreads' = nreads + 1 =>
              /\ rres'.kind = "err"
              /\ rres'.err = "closed"
              /\ recvd' = recvd
         /\ nwrites' = nwrites + 1 =>
              /\ wres'.err = "closed"
              /\ wire' = wire
              /\ sent' = sent]_vars

\* C24: GetSender returns the identity given to the most recent SetSender
\* call, or the one generated at construction if there was none, and no
\* ReadFrame, WriteFrame or Close changes it.
C24_SenderKept ==
    /\ [](sender = api.given)
    /\ [](api.op = "GetSender" => api.id = api.given)
    /\ [][(nreads' # nreads \/ nwrites' # nwrites \/ CloseCalled) =>
             sender' = sender]_vars

\* GetSender answered with the identity given by SetSender after frames were
\* read and written and the transport was closed.
C24_Witness ==
    /\ api.op = "GetSender"
    /\ api.id = Uuid(3)
    /\ api.given = Uuid(3)
    /\ api.closes > 0
    /\ nreads > 0
    /\ nwrites > 0

\* The one thread of the sequential logger.
Caller == logger.callers[1]

\* The file and its writer are as they were.
FileUntouched == logger'.logFile = logger.logFile /\ logger'.writer = logger.writer

\* C28: Close is idempotent and final.  The first Close flushes and closes
\* the file, every later Close returns nil without touching the file, and
\* every Log call after Close writes nothing to the console or the file.
C28_CloseFinal ==
    /\ [](logger.closed /\ ~logger.logFile.nil =>
             /\ ~logger.logFile.open
             /\ logger.writer.buf = <<>>)
    /\ [][(logger.closed /\ logger'.callers[1].op = "Close"
             /\ logger'.ncalls = logger.ncalls + 1) =>
             /\ logger'.callers[1].ret = ""
             /\ FileUntouched]_vars
    /\ [][logger.closed =>
             /\ logger'.console = logger.console
             /\ FileUntouched]_vars

\* C28 without its first part: once Close was called, a later Close returns
\* nil and no call prints or touches the file or its writer.
C28_NothingAfterClose ==
    /\ [][(logger.closed /\ logger'.callers[1].op = "Close"
             /\ logger'.ncalls = logger.ncalls + 1) =>
             /\ logger'.callers[1].ret = ""
             /\ FileUntouched]_vars
    /\ [][logger.closed =>
             /\ logger'.console = logger.console
             /\ FileUntouched]_vars

\* What the documentation says of each mode: the levels that are printed and
\* whether what is printed is saved too.
Documented(mode, logType) ==
    LET levels == CASE mode = DEV     -> {INFO, WARNING, ERROR, DEBUG}
                    [] mode = RELEASE -> {INFO, WARNING, ERROR}
                    [] mode = VERBOSE -> {INFO, WARNING, ERROR, DEBUG}
                    [] mode = HIDDEN  -> {INFO, ERROR}
                    [] OTHER          -> {}
    IN  [print |-> logType \in levels,
         save  |-> logType \in levels /\ mode # DEV]

\* C29: Log filters by mode and level as documented.  A Log call on an open
\* logger prints and saves exactly what the documentation says of its mode and
\* level, DEV never writes the file, and a mode or level outside the four
\* produces no output.
C29_FilterAsDocumented ==
    /\ logger.pc = "on" =>
         /\ (Caller.pc = "idle" /\ Caller.op = "Log" /\ ~Caller.sawClosed) =>
               /\ Caller.printed = Documented(logger.mode, Caller.lvl).print
               /\ Caller.saved = Documented(logger.mode, Caller.lvl).save
         /\ logger.mode = DEV =>
               logger.writer.buf = <<>> /\ logger.logFile.data = <<>>
         /\ logger.mode >= 4 =>
               /\ logger.console = <<>>
               /\ logger.writer.buf = <<>>
               /\ logger.logFile.data = <<>>
         /\ \A i \in 1..Len(logger.console) :
               logger.console[i].line.to = "console" =>
                  Documented(logger.mode, logger.console[i].line.lvl).print
         /\ \A i \in 1..Len(logger.writer.buf) :
               Documented(logger.mode, logger.writer.buf[i].line.lvl).save
         /\ \A i \in 1..Len(logger.logFile.data) :
               Documented(logger.mode, logger.logFile.data[i].line.lvl).save

\* In HIDDEN mode an INFO line was printed and reached the file, and the
\* WARNING logged after it was dropped.
C29_Witness ==
    /\ logger.pc = "on"
    /\ logger.mode = HIDDEN
    /\ Caller.pc = "idle"
    /\ Caller.op = "Log"
    /\ Caller.lvl = WARNING
    /\ ~Caller.printed
    /\ ~Caller.saved
    /\ Len(logger.console) = 1
    /\ Len(logger.logFile.data) = 1

\* Every line in a sequence of written lines is the line its call built.
Whole(lines) == \A i \in 1..Len(lines) : lines[i].line = lines[i].want

\* C30: the logger is thread-safe.  Under every interleaving of Log, Flush,
\* SetColor and Close calls at most one call at a time uses the builder and
\* the writer, each line is written whole, and no line is written to the file
\* after a Close call has returned.
C30_ThreadSafe ==
    /\ [](logger.pc = "on" =>
             /\ ~logger.clash
             /\ Cardinality({t \in DOMAIN logger.callers :
                    logger.callers[t].pc \in {"printing", "saving", "unlock"}}) <= 1
             /\ Whole(logger.console)
             /\ Whole(logger.writer.buf)
             /\ Whole(logger.logFile.data))
    /\ [][logger.closeDone => logger'.logFile.data = logger.logFile.data]_vars

\* One thread is about to write its line to the writer while the other waits
\* for the mutex, and a line is in the writer's buffer already.
C30_Witness ==
    /\ logger.pc = "on"
    /\ DOMAIN logger.callers = {1, 2}
    /\ logger.callers[1].pc = "saving"
    /\ logger.callers[2].pc = "lock"
    /\ logger.mu = 1
    /\ logger.writer.buf # <<>>

\* C31: a configuration with MaxClients == 0 or MaxMessageSize == 0, which
\* the fields' documentation calls no limit, and otherwise valid fields is
\* accepted by Validate.
C31_ZeroMeansNoLimit ==
    (/\ config.src # "none"
     /\ config.ret # "none"
     /\ config.Port # 0
     /\ config.BufferSize > 0
     /\ config.SendChanSize > 0
     /\ config.MaxClients >= 0
     /\ config.MaxMessageSize >= 0) => config.ret = ""

\* The fields Validate reads.
ConfigFields(c) ==
    <<c.src, c.Port, c.MaxClients, c.BufferSize, c.SendChanSize, c.MaxMessageSize>>

C38_DeadlinesApart ==
    /\ [][deadlines'.op = "SetReadDeadline" =>
             deadlines'.write = deadlines.write]_vars
    /\ [][deadlines'.op = "SetWriteDeadline" =>
             deadlines'.read = deadlines.read]_vars

\* C38 for SetWriteDeadline alone, where it holds.
C38_WriteDeadlineApart ==
    [][deadlines'.op = "SetWriteDeadline" =>
          deadlines'.read = deadlines.read]_vars

\* C32: every frame WriteFrame produces is the one-byte header length H, the
\* H header bytes, the payload and the 4-byte big-endian checksum of the
\* payload, 1 + H + len(payload) + 4 bytes in all; H is the encoded header
\* length, one of 52, 56, 68 and 72 (52, plus 16 for a broadcast with a
\* non-zero Receiver, plus 4 for Protocol datagram), and equals HeaderSize().
C32_FrameLayout ==
    (wres.called /\ wres.err = "") =>
        LET msg == wres.msg
            H   == msg[1]
            n   == Len(wres.payload)
            h   == wres.h
        IN  /\ Len(msg) = 1 + H + n + 4
            /\ H = HeaderSize(h)
            /\ H = 52 + (IF h.MessageType = MessageTypeBroadcast
                            /\ h.Receiver # UuidNil THEN 16 ELSE 0)
                      + (IF h.Protocol = ProtocolUDP THEN 4 ELSE 0)
            /\ H \in {52, 56, 68, 72}
            /\ SubSeq(msg, 2, 1 + H) = HeaderBytes(h)
            /\ SubSeq(msg, 2 + H, 1 + H + n) = wres.payload
            /\ Uint32(SubSeq(msg, 2 + H + n, Len(msg))) = Checksum(wres.payload)

\* A 68-byte header, of a broadcast with a Receiver on the stream transport,
\* was written with a payload.
C32_Witness ==
    /\ wres.called
    /\ wres.err = ""
    /\ wres.msg[1] = 68
    /\ Len(wres.msg) = 1 + 68 + 2 + 4

WrapsAround(len) ==
    len[1] = Limb - 1 /\ len[2] = Limb - 1 /\ len[3] = Limb - 1 /\ len[4] >= Limb - 4

\* C33: for every Length a received header can declare, those within 4 of
\* 2^64 included, ReadFrame rejects the frame with an error when fewer than
\* Length + 4 bytes follow the header; it takes no buffer size or slice bound
\* from the wrapped sum and does not index outside the received data.
C33_WrappedLengthRejected ==
    [][ (/\ ReceivesPacket
         /\ Received(Head(inbox).data) >= 1
         /\ Received(Head(inbox).data) >= 1 + Head(inbox).data[1]
         /\ HeaderDecode(SubSeq(Head(inbox).data, 2,
                                Received(Head(inbox).data)),
                         Head(inbox).data[1]).kind = "ok"
         /\ WrapsAround(LengthField(Head(inbox).data))) =>
            rres'.kind = "err" ]_vars

\* C35: a datagram ReadFrame that fails validation (truncated packet,
\* undecodable header or checksum mismatch) leaves the recorded peer address
\* as it was.
C35_FailedReadKeepsPeer ==
    [][ (ReceivesPacket /\ rres'.kind = "err") => addr' = addr ]_vars

\* C35 for the reads that return a frame, where the address is the source's.
C35_ReadRecordsPeer ==
    [][ (ReceivesPacket /\ rres'.kind = "ok") => addr' = Head(inbox).src ]_vars

\* C36: on every successful ReadFrame the payload returned has header.Length
\* bytes and was verified against the 4 bytes that follow it; in a datagram
\* those are its last 4 bytes, that is a datagram with bytes behind the
\* declared frame is not accepted.
C36_NothingBehindFrame ==
    [][ (ReceivesPacket /\ rres'.kind = "ok") =>
          LET pkt == Head(inbox).data
              H   == pkt[1]
              n   == Len(rres'.payload)
          IN  /\ rres'.h.Length = U64FromInt(n)
              /\ rres'.payload = SubSeq(pkt, 2 + H, 1 + H + n)
              /\ Uint32(SubSeq(pkt, 2 + H + n, 5 + H + n)) = Checksum(rres'.payload)
              /\ Len(pkt) = 1 + H + n + 4 ]_vars

\* C36 without its last part, which holds: the payload has header.Length
\* bytes and matches the 4 bytes that follow it.
C36_PayloadVerified ==
    [][ (ReceivesPacket /\ rres'.kind = "ok") =>
          LET pkt == Head(inbox).data
              H   == pkt[1]
              n   == Len(rres'.payload)
          IN  /\ rres'.h.Length = U64FromInt(n)
              /\ rres'.payload = SubSeq(pkt, 2 + H, 1 + H + n)
              /\ Uint32(SubSeq(pkt, 2 + H + n, 5 + H + n)) = Checksum(rres'.payload) ]_vars

\* The number of bytes the stream's writer has sent.
RECURSIVE Written(_)
Written(s) == IF s = <<>> THEN 0 ELSE FrameLen(Head(s)) + Written(Tail(s))

\* The bytes the reader has taken off the stream.
Consumed == Written(sent) - Len(wire)

\* The header length and the Length field the first frame declares on
\* arrival.
DeclaredH ==
    IF tampered.done /\ tampered.pos = 1 THEN tampered.new
    ELSE HeaderSize(sent[1].h)

DeclaredLength ==
    LET bytes == PutUint64(sent[1].h.Length)
    IN  Uint64(IF tampered.done /\ tampered.pos \in 42..49
               THEN [bytes EXCEPT ![tampered.pos - 41] = tampered.new]
               ELSE bytes)

\* The prefix byte and the Length field of the first frame arrived as written.
LengthIntact == ~tampered.done \/ tampered.pos \notin ({1} \cup (42..49))

\* The first and the second ReadFrame return.
FirstReturn == kind = "tcp" /\ nreads = 0 /\ nreads' = 1

SecondReturn == kind = "tcp" /\ nreads = 1 /\ nreads' = 2

\* C34 as stated: a stream ReadFrame that fails with a checksum mismatch has
\* consumed the bytes of that one frame, so the next ReadFrame returns the
\* following frame intact; one that fails with a header decode error has
\* consumed 1 + H bytes.
C34_AlignedAfterMismatch ==
    /\ [][(FirstReturn /\ rres'.err = "checksum") =>
             Consumed' = FrameLen(sent[1])]_vars
    /\ [][(SecondReturn /\ rres.err = "checksum" /\ Len(sent) >= 2) =>
             /\ rres'.kind = "ok"
             /\ SameFields(sent[2].h, rres'.h)
             /\ rres'.payload = sent[2].payload]_vars
    /\ [][(FirstReturn /\ rres'.err = "decode") =>
             Consumed' = 1 + DeclaredH]_vars

\* C34 as amended: the failed call has consumed 1 + H + Length + 4 bytes for
\* the H and the Length that arrived; that is the frame, and the next
\* ReadFrame returns the following frame intact, when the prefix byte and the
\* Length field arrived as written.  After a header decode error 1 + H bytes
\* are consumed and, the prefix byte intact, the stream stands at the failed
\* frame's payload.
C34_AlignedWhenLengthIntact ==
    /\ [][(FirstReturn /\ rres'.err = "checksum") =>
             /\ U64Small(DeclaredLength)
             /\ Consumed' = 1 + DeclaredH + U64ToInt(DeclaredLength) + 4]_vars
    /\ [][(FirstReturn /\ rres'.err = "checksum" /\ LengthIntact) =>
             Consumed' = FrameLen(sent[1])]_vars
    /\ [][(SecondReturn /\ rres.err = "checksum" /\ LengthIntact
             /\ Len(sent) >= 2) =>
             /\ rres'.kind = "ok"
             /\ SameFields(sent[2].h, rres'.h)
             /\ rres'.payload = sent[2].payload]_vars
    /\ [][(FirstReturn /\ rres'.err = "decode") =>
             /\ Consumed' = 1 + DeclaredH
             /\ (tampered.pos # 1 =>
                   Consumed' = 1 + HeaderSize(sent[1].h))]_vars

\* A byte of the first frame's payload or checksum was changed, the first
\* ReadFrame failed and the second returned the second frame.
C34_Witness ==
    /\ kind = "tcp"
    /\ tampered.done
    /\ tampered.pos >= 2 + HeaderSize(sent[1].h)
    /\ nreads = 2
    /\ Len(sent) = 2
    /\ Len(recvd) = 1
    /\ SameFields(sent[2].h, recvd[1].h)
    /\ recvd[1].payload = AlignPayload(2)

=============================================================================
